---- MODULE Spec2Model ----
(***************************************************************************)
(* Verification engine of the trust gateway: the Anchor Ledger             *)
(* (verifier/anchor.py), the Cryptographic Verifier (verifier/crypto.py),  *)
(* the Status Resolver (verifier/status.py), the Delegation Chain Verifier *)
(* and the CVC Orchestrator (verifier/verifier.py).                        *)
(*                                                                         *)
(* Conventions.  A Python None or an absent dictionary key is the string   *)
(* None for string fields, NoInt for integer fields and a record of its    *)
(* own shape (NoProof, NoBinding, ...) for dictionaries.  SHA-256 is       *)
(* modelled as the injective tagging Sha256(x) = <<"sha256", x>>: two      *)
(* digests are equal exactly when their inputs are equal.                  *)
(***************************************************************************)
EXTENDS Integers, Sequences, FiniteSets, TLC

VARIABLES
    in_memory_anchors, \* MockBlockchainAnchor._in_memory_anchors: fingerprint -> proof
    chain,             \* MockBlockchainAnchor._chain: sequence of chain entries
    storage,           \* content of the anchor storage file
    storage_path,      \* TRUE iff the ledger was built with a storage path
    now,               \* int(time.time())
    ret,               \* the last call and what it returned
    first_proof,       \* history: the proof each fingerprint's first anchor call returned
    thr,               \* concurrent requests: per thread, its position and locals
    request_cvc,       \* the Canonical Verification Context under verification
    status_files,      \* fixtures/status: state of the active and the revoked status file
    verifier_key,      \* TRUE iff the verifier's private key file exists
    anchor_instance,   \* TRUE iff get_anchor_instance() returns the ledger
    first_vro,         \* history: the VRO of the first successful verify_cvc
    vp_token,          \* the vp_token of an OIDC4VP authorization response
    worker2            \* _in_memory_anchors and _chain of the ledger of a second worker process

ledger_vars == <<in_memory_anchors, chain, storage, storage_path>>
req_vars == <<request_cvc, status_files, verifier_key, anchor_instance, first_vro,
              vp_token, worker2>>
vars == <<in_memory_anchors, chain, storage, storage_path, now, ret, first_proof, thr,
          request_cvc, status_files, verifier_key, anchor_instance, first_vro,
          vp_token, worker2>>

-----------------------------------------------------------------------------
(* Bounds *)

MaxTime == 1          \* the clock runs over StartTime..(StartTime + MaxTime)
NumFingerprints == 2  \* distinct non-empty fingerprints offered to the ledger
NumThreads == 2       \* concurrent requests on one ledger instance
MaxChainLen == 3      \* longest delegation chain of the scope family

-----------------------------------------------------------------------------
(* Values *)

None == "None"
NoInt == 0 - 1
NoProof == [none |-> TRUE]
NoFile == [exists |-> FALSE]
NoCall == [fn |-> "none"]
NoCvc == [none |-> TRUE]
NoVro == [none |-> TRUE]
NoVpToken == [none |-> TRUE]
NoWorker == [none |-> TRUE]
\* the fixtures as shipped: an active list without, a revoked list with "/////"
StandardFiles == [active |-> "clear", revoked |-> "flagged"]
Idle == [pc |-> "idle"]

Sha256(x) == <<"sha256", x>>
EmptyString == <<>>

\* policy.get("clock_skew_seconds", 5)
DefaultClockSkew == 5

\* int(time.time()) of the earliest second of a run: the clock is a Unix time,
\* later than second 0 by more than the clock skew
StartTime == DefaultClockSkew + 1

Times == StartTime..(StartTime + MaxTime)

\* the fingerprints callers pass: the empty string and NumFingerprints digests
Fingerprints == {EmptyString} \cup {Sha256(<<[chain_id |-> n]>>) : n \in 1..NumFingerprints}

\* metadata arguments: None, and the dictionary verify_delegation_chain attaches
EmptyMeta == [empty |-> TRUE]
Metadatas == {NoProof, [depth |-> 1, policy_id |-> "P-001", timestamp |-> StartTime]}

EmptyMap == [f \in {} |-> NoProof]

Put_Fresh(m, k, v) == [x \in {k} |-> v]

Put(m, k, v) == [x \in (DOMAIN m) \cup {k} |-> IF x = k THEN v ELSE m[x]]

-----------------------------------------------------------------------------
(* Anchor Ledger: verifier/anchor.py *)

Ledger(a, c, s, p) == [anchors |-> a, chain |-> c, storage |-> s, storage_path |-> p]

\* "metadata or {}"
MetadataOrEmpty(metadata) == IF metadata = NoProof THEN EmptyMeta ELSE metadata

\* _save_to_storage: whole-file overwrite; a failed write is logged and swallowed.
\* wr is what the file system does with the write: "ok" or "fail" (the
\* exception is caught and the file keeps its old content).
SaveToStorage(L, t, wr) ==
    IF ~L.storage_path THEN L.storage
    ELSE IF wr = "ok"
         THEN [exists |-> TRUE, anchors |-> L.anchors, chain |-> L.chain, last_updated |-> t]
         ELSE L.storage

WriteOutcomes == {"ok", "fail"}

NextBlockNumber_First(L) == 1

NextBlockNumber_ZeroBased(L) == Len(L.chain)

\* block_number = len(self._chain) + 1
NextBlockNumber(L) == Len(L.chain) + 1

BlockHash(L, fingerprint, metadata, t) ==
    LET block_number == NextBlockNumber(L)
        block_data == [fingerprint |-> fingerprint,
                       metadata |-> MetadataOrEmpty(metadata),
                       timestamp |-> t,
                       block_number |-> block_number]
        previous_hash == IF Len(L.chain) > 0 THEN L.chain[Len(L.chain)].block_hash
                         ELSE EmptyString
    IN Sha256(<<block_data, previous_hash>>)

NewAnchorProof(L, fingerprint, metadata, t) ==
    LET block_number == NextBlockNumber(L)
        block_hash == BlockHash(L, fingerprint, metadata, t)
    IN [block_hash |-> block_hash,
        block_number |-> block_number,
        transaction_hash |-> Sha256(<<fingerprint, t, block_number>>),
        timestamp |-> t,
        proof |-> [type |-> "mock_blockchain",
                   fingerprint |-> fingerprint,
                   block_hash |-> block_hash,
                   chain_position |-> block_number]]

ChainEntry(proof, fingerprint) ==
    [block_hash |-> proof.block_hash,
     block_number |-> proof.block_number,
     fingerprint |-> fingerprint,
     timestamp |-> proof.timestamp]

AlreadyAnchored_NoCheck(L, fingerprint) == FALSE

\* "if fingerprint in self._in_memory_anchors"
AlreadyAnchored(L, fingerprint) == fingerprint \in DOMAIN L.anchors

\* anchor_chain_fingerprint, run without interruption.
\* Result: raised (AnchorError), value (the proof returned), L (the ledger after).
AnchorChainFingerprint(L, fingerprint, metadata, t, wr) ==
    IF fingerprint = EmptyString
    THEN [raised |-> TRUE, value |-> NoProof, L |-> L]
    ELSE IF AlreadyAnchored(L, fingerprint)
    THEN [raised |-> FALSE, value |-> L.anchors[fingerprint], L |-> L]
    ELSE LET anchor_proof == NewAnchorProof(L, fingerprint, metadata, t)
             stored == Ledger(Put(L.anchors, fingerprint, anchor_proof),
                              Append(L.chain, ChainEntry(anchor_proof, fingerprint)),
                              L.storage, L.storage_path)
         IN [raised |-> FALSE,
             value |-> anchor_proof,
             L |-> [stored EXCEPT !.storage = SaveToStorage(stored, t, wr)]]

\* verify_anchor: <<is_anchored, error_message>>
VerifyAnchor(L, fingerprint, anchor_proof) ==
    IF fingerprint = EmptyString
    THEN <<FALSE, "Fingerprint cannot be empty">>
    ELSE IF anchor_proof # NoProof /\ anchor_proof.proof.fingerprint # fingerprint
    THEN <<FALSE, "Anchor proof fingerprint mismatch">>
    ELSE IF anchor_proof # NoProof /\ fingerprint \notin DOMAIN L.anchors
    THEN <<FALSE, "Anchor proof not found in storage">>
    ELSE IF anchor_proof # NoProof
            /\ L.anchors[fingerprint].transaction_hash # anchor_proof.transaction_hash
    THEN <<FALSE, "Anchor proof transaction hash mismatch">>
    ELSE IF fingerprint \notin DOMAIN L.anchors
    THEN <<FALSE, "Fingerprint not anchored">>
    ELSE LET block_number == L.anchors[fingerprint].block_number IN
         IF block_number # 0 /\ block_number <= Len(L.chain)
            /\ L.chain[block_number].fingerprint # fingerprint
         THEN <<FALSE, "Chain integrity verification failed">>
         ELSE <<TRUE, None>>

\* get_anchor_proof
GetAnchorProof(L, fingerprint) ==
    IF fingerprint \in DOMAIN L.anchors THEN L.anchors[fingerprint] ELSE NoProof

-----------------------------------------------------------------------------
(* Error codes: verifier/constants.py *)

OK == "OK"
STRUCT == "100"
FORMAT_ERROR == "100"
ALG == "E200"
VC_TIME == "E200"
VC_REVOKED == "E200"
KEY_BINDING_UNVERIFIED == "E200"
DG_DEPTH == "E300"
DG_TIME == "E300"
DG_REVOKED == "E300"
STATUS_FETCH_ERROR == "E300"
ANCHOR_VERIFICATION_FAILED == "E300"
DG_SCOPE_ESCALATION == "E400"
HOLDER_BINDING == "E500"
INTERNAL == "E900"

DETERMINISTIC_TIMESTAMP == 1735600000

-----------------------------------------------------------------------------
(* Dictionaries with optional keys.  A policy, a CVC and its metadata M     *)
(* carry the set "absent" of the keys they lack; d.get(key, default) is     *)
(* Get(d, key, default) and "key in d" is Has(d, key).                      *)

Has(d, key) == key \notin d.absent
Get(d, key, default) == IF Has(d, key) THEN d[key] ELSE default

\* payload.get("nbf", 0), payload.get("exp", 0)
IntOr(v, default) == IF v = NoInt THEN default ELSE v

-----------------------------------------------------------------------------
(* Cryptographic Verifier: verifier/crypto.py.                              *)
(* A token is [hdr: [kid, alg], sig, pld]: sig says whether the signature   *)
(* verifies under the JWKS key named by hdr.kid.                            *)

JwksKids == {"bank-ed25519-1"}

\* the clock during one call: a call that starts at second t makes its clock
\* reads in a fixed order, and the second may change once, before read
\* number e.tick_at.  Reads: 1 jwt.decode of the credential, 2 "now" of
\* verify_vc_jwt, 3 "now" of verify_delegation_chain, 4 jwt.decode of the
\* delegations and the anchoring timestamps.
Clock(t, e, read) == IF e.tick_at <= read THEN t + 1 ELSE t

\* PyJWT's claim validation inside jwt.decode (leeway 0): an "exp" that has
\* passed and an "nbf" still to come are rejected.  Releases differ on a
\* token whose exp equals the current second: e.strict_exp says whether this
\* build rejects it.
JwtClaimsValid(pld, clock, e) ==
    /\ pld.exp # NoInt => (pld.exp > clock \/ (pld.exp = clock /\ ~e.strict_exp))
    /\ pld.nbf # NoInt => pld.nbf <= clock

\* jwt.decode(token, key=key, algorithms=["EdDSA"])
JwtDecodeOk(token, clock, e) ==
    /\ token.hdr.alg = "EdDSA"
    /\ token.sig
    /\ JwtClaimsValid(token.pld, clock, e)

\* key_exists_in_jwks
KeyExistsInJwks(kid) == kid \in JwksKids

\* verify_jws: ok = FALSE stands for a raised CryptoError
VerifyJws(token, clock, e) ==
    IF token.hdr.kid \in {None, ""} THEN [ok |-> FALSE]
    ELSE IF token.hdr.kid \notin JwksKids THEN [ok |-> FALSE]
    ELSE IF ~JwtDecodeOk(token, clock, e) THEN [ok |-> FALSE]
    ELSE [ok |-> TRUE, header |-> token.hdr, payload |-> token.pld]

-----------------------------------------------------------------------------
(* Status Resolver: verifier/status.py.                                     *)
(* files = [active, revoked]: what is on disk under each of the two status  *)
(* file names: "missing", "malformed" (not JSON), or the encodedList kind   *)
(* of the document, "clear" (no "/////") or "flagged" (contains "/////").   *)

UrlActive == "https://status.example/active"
UrlRevoked == "https://status.example/revoked"

\* "revoked" in status_url
MentionsRevoked(status_url) == status_url = UrlRevoked

FileStates == {"missing", "malformed", "clear", "flagged"}

\* fetch_status: ok = FALSE stands for a raised StatusError
FetchStatus(status_url, files) ==
    LET status_file == IF MentionsRevoked(status_url) THEN files.revoked ELSE files.active IN
    IF status_file \in {"missing", "malformed"} THEN [ok |-> FALSE]
    ELSE [ok |-> TRUE, encodedList |-> status_file]

\* is_revoked
IsRevoked(status_doc, index) == status_doc.encodedList = "flagged"

StatusRequired_FailOpen(P) == Get(P, "status_required", FALSE)

\* policy.get("status_required", True)
StatusRequired(P) == Get(P, "status_required", TRUE)

StatusStep_UrlRequired(status_url, index, P, files) ==
    IF status_url \in {None, ""}
    THEN IF Get(P, "status_required", TRUE) THEN "fetch_error" ELSE "pass"
    ELSE IF ~FetchStatus(status_url, files).ok
    THEN IF Get(P, "status_required", TRUE) THEN "fetch_error" ELSE "pass"
    ELSE IF IsRevoked(FetchStatus(status_url, files), index) THEN "revoked" ELSE "pass"

\* the revocation step shared by verify_delegation_chain and verify_vc_jwt:
\* "revoked", "fetch_error" (fail-closed) or "pass"
StatusStep(status_url, index, P, files) ==
    IF status_url \in {None, ""} THEN "pass"
    ELSE LET status_doc == FetchStatus(status_url, files) IN
         IF status_doc.ok
         THEN IF IsRevoked(status_doc, index) THEN "revoked" ELSE "pass"
         ELSE IF StatusRequired(P) THEN "fetch_error" ELSE "pass"

-----------------------------------------------------------------------------
(* Delegation Chain Verifier: verifier/verifier.py *)

NoFingerprint == <<"None">>
NoBinding == [present |-> FALSE]

ScopeSubset_Overlapping(child_scope, parent_scope) ==
    /\ child_scope.resource = parent_scope.resource
    /\ child_scope.actions \cap parent_scope.actions # {}

ScopeSubset_ResourceOnly(child_scope, parent_scope) ==
    child_scope.resource = parent_scope.resource

\* scope_subset
ScopeSubset(child_scope, parent_scope) ==
    IF child_scope.resource # parent_scope.resource THEN FALSE
    ELSE child_scope.actions \subseteq parent_scope.actions

DgInfo(index, depth, fp, max_depth, actual) ==
    [index |-> index, depth |-> depth, chain_fingerprint |-> fp,
     max_depth |-> max_depth, actual |-> actual]

DgFail(code, err, index) ==
    [failed |-> TRUE, code |-> code, err |-> err,
     info |-> DgInfo(index, NoInt, NoFingerprint, NoInt, NoInt)]

KeyBindingFails_JwksEnforced(payload) ==
    /\ payload.dg.key_binding # NoBinding
    /\ \/ payload.dg.key_binding.kid \in {None, ""}
       \/ ~KeyExistsInJwks(payload.dg.key_binding.kid)

\* key binding step: fails only when the kid is missing or empty
KeyBindingFails(payload) ==
    /\ payload.dg.key_binding # NoBinding
    /\ payload.dg.key_binding.kid \in {None, ""}

\* one pass of the loop body for delta[i]; previous is the sequence
\* parsed_delegations before this pass; index is i - 1, the Python index;
\* t is the second at which the call started
CheckElement(dg, index, previous, P, t, e, files) ==
    LET Checks(result, now_dg) ==
            IF ~result.ok THEN DgFail(STRUCT, "CryptoError", index)
            ELSE LET payload == result.payload
                     st == StatusStep(payload.dg.status.url, 0, P, files)
                 IN
            IF now_dg < IntOr(payload.nbf, 0) \/ now_dg > IntOr(payload.exp, 0)
            THEN DgFail(DG_TIME, "DG_TIME", index)
            ELSE IF st = "revoked" THEN DgFail(DG_REVOKED, "DG_REVOKED", index)
            ELSE IF st = "fetch_error"
            THEN DgFail(STATUS_FETCH_ERROR, "STATUS_FETCH_ERROR", index)
            ELSE IF KeyBindingFails(payload)
            THEN DgFail(KEY_BINDING_UNVERIFIED, "KEY_BINDING_UNVERIFIED", index)
            ELSE IF index > 0 /\ ~ScopeSubset(payload.dg.scope, previous[index].dg.scope)
            THEN DgFail(DG_SCOPE_ESCALATION, "DG_SCOPE_ESCALATION", index)
            ELSE [failed |-> FALSE, payload |-> payload]
    IN Checks(VerifyJws(dg.raw, Clock(t, e, 4), e), Clock(t, e, 3))

RECURSIVE ChainLoop_LastFailure(_, _, _, _, _, _, _)
ChainLoop_LastFailure(delta, i, parsed_delegations, P, t, e, files) ==
    IF i > Len(delta) THEN [failed |-> FALSE, parsed_delegations |-> parsed_delegations]
    ELSE LET Pass(c) ==
                 LET Rest(rest) == IF c.failed /\ ~rest.failed THEN c ELSE rest
                 IN Rest(ChainLoop_LastFailure(delta, i + 1,
                                               Append(parsed_delegations, delta[i].raw.pld),
                                               P, t, e, files))
         IN Pass(CheckElement(delta[i], i - 1, parsed_delegations, P, t, e, files))

\* "for i, dg in enumerate(delta)": the first failure, or all verified payloads
RECURSIVE ChainLoop(_, _, _, _, _, _, _)
ChainLoop(delta, i, parsed_delegations, P, t, e, files) ==
    IF i > Len(delta) THEN [failed |-> FALSE, parsed_delegations |-> parsed_delegations]
    ELSE LET Pass(c) ==
                 IF c.failed THEN c
                 ELSE ChainLoop(delta, i + 1, Append(parsed_delegations, c.payload),
                                P, t, e, files)
         IN Pass(CheckElement(delta[i], i - 1, parsed_delegations, P, t, e, files))

\* observation: fetch_status raised StatusError in the pass for dg ("except
\* StatusError as e" was entered)
DgStatusErrorRaised(dg, t, e, files) ==
    \E result \in {VerifyJws(dg.raw, Clock(t, e, 4), e)}, now_dg \in {Clock(t, e, 3)} :
        /\ result.ok
        /\ ~(now_dg < IntOr(result.payload.nbf, 0) \/ now_dg > IntOr(result.payload.exp, 0))
        /\ result.payload.dg.status.url \notin {None, ""}
        /\ ~FetchStatus(result.payload.dg.status.url, files).ok

\* observation: the number of passes of the loop that returned loop, and of
\* those that raised StatusError
PassesRun(delta, loop) == IF loop.failed THEN loop.info.index + 1 ELSE Len(delta)

StatusErrorsRaised(delta, loop, t, e, files) ==
    Cardinality({i \in 1..PassesRun(delta, loop) : DgStatusErrorRaised(delta[i], t, e, files)})

ChainFingerprint_Unordered(parsed_delegations) ==
    Sha256({parsed_delegations[i] : i \in 1..Len(parsed_delegations)})

ChainFingerprint_LastOnly(parsed_delegations) ==
    Sha256(<<parsed_delegations[Len(parsed_delegations)]>>)

\* chain_hash over json.dumps(delegation, sort_keys=True) of each payload in order
ChainFingerprint(parsed_delegations) == Sha256(parsed_delegations)

DefaultMaxDepth == 3

MaxDepth_ZeroDefault(P) == Get(P, "max_delegation_depth", 0)

\* policy.get("max_delegation_depth", 3)
MaxDepth(P) == Get(P, "max_delegation_depth", DefaultMaxDepth)

DepthExceeded_OffByOne(delta, P) == Len(delta) > MaxDepth(P) + 1

\* "if len(delta) > max_depth"
DepthExceeded(delta, P) == Len(delta) > MaxDepth(P)

AnchorSection_DefaultLedger(L, anchor, chain_fingerprint, depth, P, t, e) ==
    IF ~Get(P, "require_anchor", FALSE) \/ VerifyAnchor(L, chain_fingerprint, NoProof)[1]
    THEN [raised |-> FALSE, L |-> L]
    ELSE [raised |-> FALSE,
          L |-> AnchorChainFingerprint(L, chain_fingerprint, NoProof, Clock(t, e, 4), e.wr).L]

AnchorSection_Skipped(L, anchor, chain_fingerprint, depth, P, t, e) ==
    [raised |-> FALSE, L |-> L]

AnchorSection_FailClosed(L, anchor, chain_fingerprint, depth, P, t, e) ==
    [raised |-> Get(P, "require_anchor", FALSE), L |-> L]

\* the anchoring section; anchor says whether get_anchor_instance()
\* returns a ledger.  Result: raised (AnchorError) and the ledger after.
AnchorSection(L, anchor, chain_fingerprint, depth, P, t, e) ==
    IF ~Get(P, "require_anchor", FALSE) \/ ~anchor
    THEN [raised |-> FALSE, L |-> L]
    ELSE IF VerifyAnchor(L, chain_fingerprint, NoProof)[1]
    THEN [raised |-> FALSE, L |-> L]
    ELSE LET metadata == [depth |-> depth,
                          policy_id |-> Get(P, "id", "unknown"),
                          timestamp |-> Clock(t, e, 4)]
             Outcome(r) == [raised |-> r.raised, L |-> r.L]
         IN Outcome(AnchorChainFingerprint(L, chain_fingerprint, metadata,
                                           Clock(t, e, 4), e.wr))

VerifyDelegationChain_NoEarlyReturn(delta, P, t, e, files, L, anchor) ==
    IF DepthExceeded(delta, P)
    THEN [success |-> FALSE, code |-> DG_DEPTH, err |-> "DG_DEPTH", L |-> L,
          passes |-> 0, status_errors |-> 0,
          info |-> DgInfo(NoInt, NoInt, NoFingerprint, MaxDepth(P), Len(delta))]
    ELSE LET AfterAnchoring(a, chain_fingerprint, depth, passes, status_errors) ==
                 IF a.raised
                 THEN [success |-> FALSE, code |-> ANCHOR_VERIFICATION_FAILED,
                       err |-> "ANCHOR_VERIFICATION_FAILED", L |-> a.L,
                       passes |-> passes, status_errors |-> status_errors,
                       info |-> DgInfo(NoInt, NoInt, chain_fingerprint, NoInt, NoInt)]
                 ELSE [success |-> TRUE, code |-> OK, err |-> "OK", L |-> a.L,
                       passes |-> passes, status_errors |-> status_errors,
                       info |-> DgInfo(NoInt, depth, chain_fingerprint, NoInt, NoInt)]
             AfterLoop(loop, passes, status_errors) ==
                 IF loop.failed
                 THEN [success |-> FALSE, code |-> loop.code, err |-> loop.err, L |-> L,
                       passes |-> passes, status_errors |-> status_errors,
                       info |-> loop.info]
                 ELSE AfterAnchoring(AnchorSection(L, anchor,
                                                   ChainFingerprint(loop.parsed_delegations),
                                                   Len(loop.parsed_delegations), P, t, e),
                                     ChainFingerprint(loop.parsed_delegations),
                                     Len(loop.parsed_delegations), passes, status_errors)
             AfterChecks(loop) ==
                 AfterLoop(loop, PassesRun(delta, loop),
                           StatusErrorsRaised(delta, loop, t, e, files))
         IN AfterChecks(ChainLoop(delta, 1, <<>>, P, t, e, files))

\* verify_delegation_chain(delta, jwks_path, policy) started at second t.
\* Result: success, code, info, err (the ErrorCode name), L (the ledger after).
VerifyDelegationChain(delta, P, t, e, files, L, anchor) ==
    IF Len(delta) = 0
    THEN [success |-> TRUE, code |-> OK, err |-> "OK", L |-> L, passes |-> 0, status_errors |-> 0,
          info |-> DgInfo(NoInt, 0, NoFingerprint, NoInt, NoInt)]
    ELSE IF DepthExceeded(delta, P)
    THEN [success |-> FALSE, code |-> DG_DEPTH, err |-> "DG_DEPTH", L |-> L,
          passes |-> 0, status_errors |-> 0,
          info |-> DgInfo(NoInt, NoInt, NoFingerprint, MaxDepth(P), Len(delta))]
    ELSE LET AfterAnchoring(a, chain_fingerprint, depth, passes, status_errors) ==
                 IF a.raised
                 THEN [success |-> FALSE, code |-> ANCHOR_VERIFICATION_FAILED,
                       err |-> "ANCHOR_VERIFICATION_FAILED", L |-> a.L,
                       passes |-> passes, status_errors |-> status_errors,
                       info |-> DgInfo(NoInt, NoInt, chain_fingerprint, NoInt, NoInt)]
                 ELSE [success |-> TRUE, code |-> OK, err |-> "OK", L |-> a.L,
                       passes |-> passes, status_errors |-> status_errors,
                       info |-> DgInfo(NoInt, depth, chain_fingerprint, NoInt, NoInt)]
             AfterLoop(loop, passes, status_errors) ==
                 IF loop.failed
                 THEN [success |-> FALSE, code |-> loop.code, err |-> loop.err, L |-> L,
                       passes |-> passes, status_errors |-> status_errors,
                       info |-> loop.info]
                 ELSE AfterAnchoring(AnchorSection(L, anchor,
                                                   ChainFingerprint(loop.parsed_delegations),
                                                   Len(loop.parsed_delegations), P, t, e),
                                     ChainFingerprint(loop.parsed_delegations),
                                     Len(loop.parsed_delegations), passes, status_errors)
             AfterChecks(loop) ==
                 AfterLoop(loop, PassesRun(delta, loop),
                           StatusErrorsRaised(delta, loop, t, e, files))
         IN AfterChecks(ChainLoop(delta, 1, <<>>, P, t, e, files))

-----------------------------------------------------------------------------
(* CVC Orchestrator: verifier/verifier.py *)

NoToken == [none |-> TRUE]
NoCredential == [none |-> TRUE]
NonStringProof == "<object>"

VcResult(success, code, err, iss, sub) ==
    [success |-> success, code |-> code, err |-> err, iss |-> iss, sub |-> sub]

\* observation: fetch_status raised StatusError inside verify_vc_jwt
VcStatusErrorRaised(token, P, t, e, files) ==
    \E result \in {VerifyJws(token, Clock(t, e, 1), e)}, now_vc \in {Clock(t, e, 2)} :
        /\ result.ok
        /\ result.header.alg \in Get(P, "alg_allowlist", {"EdDSA"})
        /\ ~(\/ now_vc < IntOr(result.payload.nbf, 0) - Get(P, "clock_skew_seconds", 5)
             \/ now_vc > IntOr(result.payload.exp, 0) + Get(P, "clock_skew_seconds", 5))
        /\ result.payload.vc.credentialStatus.statusListCredential \notin {None, ""}
        /\ ~FetchStatus(result.payload.vc.credentialStatus.statusListCredential, files).ok

\* verify_vc_jwt(vp, jwks_issuer, policy) started at second t
VerifyVcJwt(token, P, t, e, files) ==
    LET Checks(result) ==
            IF ~result.ok THEN VcResult(FALSE, STRUCT, "CryptoError", None, None)
            ELSE LET payload == result.payload
                     header == result.header
                     now_vc == Clock(t, e, 2)
                     clock_skew == Get(P, "clock_skew_seconds", DefaultClockSkew)
                     nbf == IntOr(payload.nbf, 0)
                     exp == IntOr(payload.exp, 0)
                     st == StatusStep(payload.vc.credentialStatus.statusListCredential,
                                      payload.vc.credentialStatus.statusListIndex, P, files)
                 IN
            IF header.alg \notin Get(P, "alg_allowlist", {"EdDSA"})
            THEN VcResult(FALSE, ALG, "ALG", None, None)
            ELSE IF now_vc < (nbf - clock_skew) \/ now_vc > (exp + clock_skew)
            THEN VcResult(FALSE, VC_TIME, "VC_TIME", None, None)
            ELSE IF st = "revoked" THEN VcResult(FALSE, VC_REVOKED, "VC_REVOKED", None, None)
            ELSE IF st = "fetch_error"
            THEN VcResult(FALSE, STATUS_FETCH_ERROR, "STATUS_FETCH_ERROR", None, None)
            ELSE VcResult(TRUE, OK, "OK", payload.iss, payload.sub)
    IN Checks(VerifyJws(token, Clock(t, e, 1), e))

SignVro_Unsigned(vro) == [vro |-> vro]

\* sign_vro: the EdDSA-signed token over the VRO
SignVro(vro) ==
    [vro_jwt |-> [header |-> [alg |-> "EdDSA", kid |-> "verifier-ed25519-1", typ |-> "JWT"],
                  payload |-> vro]]

RequiredFields_IdentityOnly == {"I_issuer", "I_subject"}

\* required_fields
RequiredFields == {"I_issuer", "I_subject", "C", "pi", "P", "S", "M"}

\* the messages of the returns of the profile dispatch itself
DispatchFailures ==
    {"missing raw_vc_jwt in M", "missing raw_vc_ld in M", "Unsupported profile"}

CredentialStage_UnknownAsJwt(cvc, t, e, files) ==
    IF Get(cvc.M, "profile_hint", "VC-JWT") = "VC-LD"
    THEN IF Get(cvc.M, "raw_vc_ld", NoCredential) = NoCredential
         THEN VcResult(FALSE, STRUCT, "missing raw_vc_ld in M", None, None)
         ELSE VcResult(TRUE, OK, "OK", cvc.I_issuer, cvc.I_subject)
    ELSE IF Get(cvc.M, "raw_vc_jwt", NoToken) = NoToken
    THEN VcResult(FALSE, STRUCT, "missing raw_vc_jwt in M", None, None)
    ELSE VerifyVcJwt(cvc.M.raw_vc_jwt, cvc.P, t, e, files)

CredentialStage_Skipped(cvc, t, e, files) ==
    VcResult(TRUE, OK, "OK", cvc.I_issuer, cvc.I_subject)

\* the credential stage: VcResult of the profile's branch
CredentialStage(cvc, t, e, files) ==
    LET profile == Get(cvc.M, "profile_hint", "VC-JWT") IN
    IF profile = "VC-JWT"
    THEN IF Get(cvc.M, "raw_vc_jwt", NoToken) = NoToken
         THEN VcResult(FALSE, STRUCT, "missing raw_vc_jwt in M", None, None)
         ELSE VerifyVcJwt(cvc.M.raw_vc_jwt, cvc.P, t, e, files)
    ELSE IF profile = "VC-LD"
    THEN IF Get(cvc.M, "raw_vc_ld", NoCredential) = NoCredential
         THEN VcResult(FALSE, STRUCT, "missing raw_vc_ld in M", None, None)
         ELSE VcResult(TRUE, OK, "OK", cvc.I_issuer, cvc.I_subject)
    ELSE VcResult(FALSE, FORMAT_ERROR, "Unsupported profile", None, None)

HolderBindingStage_PresenceOnly(cvc) ==
    IF ~Get(cvc.P, "holder_binding_required", TRUE) THEN "pass"
    ELSE IF Get(cvc.M, "holder_binding", NoBinding) = NoBinding THEN "missing_holder_binding"
    ELSE "pass"

HolderBindingStage_AlwaysRequired(cvc) ==
    LET holder_binding == Get(cvc.M, "holder_binding", NoBinding) IN
    IF holder_binding = NoBinding THEN "missing_holder_binding"
    ELSE IF holder_binding.proof \in {None, "", NonStringProof}
    THEN "invalid_proof_structure"
    ELSE "pass"

\* the holder-binding stage: "pass" or the reason of the failure
HolderBindingStage(cvc) ==
    IF ~Get(cvc.P, "holder_binding_required", TRUE) THEN "pass"
    ELSE LET holder_binding == Get(cvc.M, "holder_binding", NoBinding) IN
         IF holder_binding = NoBinding THEN "missing_holder_binding"
         ELSE IF holder_binding.proof \in {None, "", NonStringProof}
         THEN "invalid_proof_structure"
         ELSE "pass"

VroTimestamp_WallClock(t) == t

\* "timestamp": DETERMINISTIC_TIMESTAMP, for a call started at second t
VroTimestamp(t) == DETERMINISTIC_TIMESTAMP

BuildVro(cvc, vc_info, dg_info, t) ==
    [cvc_id |-> cvc.M.request_id,
     timestamp |-> VroTimestamp(t),
     policy_ref |-> cvc.P.id,
     issuer |-> vc_info.iss,
     subject |-> vc_info.sub,
     delegation_chain_depth |-> IntOr(dg_info.depth, 0),
     decision |-> "VERIFIED",
     assurance |-> "AAL2",
     chain_fingerprint |-> dg_info.chain_fingerprint]

CvcResult(success, code, stage, vro, result, L) ==
    [success |-> success, code |-> code, stage |-> stage, vro |-> vro,
     result |-> result, L |-> L]

VerifyCvc_SigningFailureAsStruct(cvc, t, e, files, key_exists, L, anchor) ==
    IF \E field \in RequiredFields : ~Has(cvc, field)
    THEN CvcResult(FALSE, STRUCT, "structural", NoVro, [msg |-> "missing field"], L)
    ELSE LET Signing(vro, dg) ==
                 IF ~key_exists
                 THEN CvcResult(FALSE, STRUCT, "sign", vro,
                                [msg |-> "Verifier private key not found"], dg.L)
                 ELSE CvcResult(TRUE, OK, "done", vro, SignVro(vro), dg.L)
             AfterChain(vc, dg) ==
                 IF ~dg.success
                 THEN CvcResult(FALSE, dg.code, "dg", NoVro,
                                [stage |-> "dg", info |-> dg.info], dg.L)
                 ELSE IF HolderBindingStage(cvc) # "pass"
                 THEN CvcResult(FALSE, HOLDER_BINDING, "holder_binding", NoVro,
                                [reason |-> HolderBindingStage(cvc)], dg.L)
                 ELSE IF ~Has(cvc.M, "request_id") \/ ~Has(cvc.P, "id")
                 THEN CvcResult(FALSE, INTERNAL, "vro", NoVro, [error |-> "KeyError"], dg.L)
                 ELSE Signing(BuildVro(cvc, vc, dg.info, t), dg)
             AfterCredential(vc) ==
                 IF ~vc.success
                 THEN CvcResult(FALSE, vc.code, "vc", NoVro,
                                IF vc.err \in DispatchFailures THEN [msg |-> vc.err]
                                ELSE [stage |-> "vc", info |-> vc.err], L)
                 ELSE AfterChain(vc, VerifyDelegationChain(Get(cvc, "Delta", <<>>), cvc.P,
                                                           t, e, files, L, anchor))
         IN AfterCredential(CredentialStage(cvc, t, e, files))

\* verify_cvc(cvc, jwks_issuer, jwks_verifier) started at second t.
\* Result: success, code, result (the returned dictionary), L (the ledger
\* after), stage (where it returned) and vro (the VRO built, if any).
VerifyCvc(cvc, t, e, files, key_exists, L, anchor) ==
    IF \E field \in RequiredFields : ~Has(cvc, field)
    THEN CvcResult(FALSE, STRUCT, "structural", NoVro, [msg |-> "missing field"], L)
    ELSE LET Signing(vro, dg) ==
                 IF ~key_exists
                 THEN CvcResult(FALSE, INTERNAL, "sign", vro,
                                [error |-> "Verifier private key not found"], dg.L)
                 ELSE CvcResult(TRUE, OK, "done", vro, SignVro(vro), dg.L)
             AfterChain(vc, dg) ==
                 IF ~dg.success
                 THEN CvcResult(FALSE, dg.code, "dg", NoVro,
                                [stage |-> "dg", info |-> dg.info], dg.L)
                 ELSE IF HolderBindingStage(cvc) # "pass"
                 THEN CvcResult(FALSE, HOLDER_BINDING, "holder_binding", NoVro,
                                [reason |-> HolderBindingStage(cvc)], dg.L)
                 ELSE IF ~Has(cvc.M, "request_id") \/ ~Has(cvc.P, "id")
                 THEN CvcResult(FALSE, INTERNAL, "vro", NoVro, [error |-> "KeyError"], dg.L)
                 ELSE Signing(BuildVro(cvc, vc, dg.info, t), dg)
             AfterCredential(vc) ==
                 IF ~vc.success
                 THEN CvcResult(FALSE, vc.code, "vc", NoVro,
                                IF vc.err \in DispatchFailures THEN [msg |-> vc.err]
                                ELSE [stage |-> "vc", info |-> vc.err], L)
                 ELSE AfterChain(vc, VerifyDelegationChain(Get(cvc, "Delta", <<>>), cvc.P,
                                                           t, e, files, L, anchor))
         IN AfterCredential(CredentialStage(cvc, t, e, files))

-----------------------------------------------------------------------------
(* Sequential use of one ledger instance *)

CurrentLedger == Ledger(in_memory_anchors, chain, storage, storage_path)

\* the proofs a caller can hand to verify_anchor: none, or one it was given
\* for some fingerprint by an earlier anchor call
KnownProofs == {NoProof} \cup {first_proof[f] : f \in DOMAIN first_proof}

InitLedger ==
    /\ in_memory_anchors = EmptyMap
    /\ chain = <<>>
    /\ storage = NoFile
    /\ storage_path \in BOOLEAN
    /\ now = StartTime
    /\ ret = NoCall
    /\ first_proof = EmptyMap
    /\ thr = [t \in 1..NumThreads |-> Idle]
    /\ request_cvc = NoCvc
    /\ status_files = StandardFiles
    /\ verifier_key = TRUE
    /\ anchor_instance = TRUE
    /\ first_vro = NoVro
    /\ vp_token = NoVpToken
    /\ worker2 = NoWorker

Tick ==
    /\ now < StartTime + MaxTime
    /\ now' = now + 1
    /\ UNCHANGED <<ledger_vars, ret, first_proof, thr, req_vars>>

AnchorCall ==
    \E fingerprint \in Fingerprints, metadata \in Metadatas,
       wr \in (IF storage_path THEN WriteOutcomes ELSE {"ok"}) :
      \E r \in {AnchorChainFingerprint(CurrentLedger, fingerprint, metadata, now, wr)} :
        /\ in_memory_anchors' = r.L.anchors
        /\ chain' = r.L.chain
        /\ storage' = r.L.storage
        /\ ret' = [fn |-> "anchor_chain_fingerprint", fingerprint |-> fingerprint,
                   arg |-> metadata, raised |-> r.raised, value |-> r.value]
        /\ first_proof' = IF r.raised \/ fingerprint \in DOMAIN first_proof
                          THEN first_proof
                          ELSE Put(first_proof, fingerprint, r.value)
        /\ UNCHANGED <<storage_path, now, thr, req_vars>>

VerifyCall ==
    \E fingerprint \in Fingerprints, anchor_proof \in KnownProofs :
        /\ ret' = [fn |-> "verify_anchor", fingerprint |-> fingerprint,
                   arg |-> anchor_proof, raised |-> FALSE,
                   value |-> VerifyAnchor(CurrentLedger, fingerprint, anchor_proof)]
        /\ UNCHANGED <<ledger_vars, now, first_proof, thr, req_vars>>

GetProofCall ==
    \E fingerprint \in Fingerprints :
        /\ ret' = [fn |-> "get_anchor_proof", fingerprint |-> fingerprint,
                   arg |-> NoProof, raised |-> FALSE,
                   value |-> GetAnchorProof(CurrentLedger, fingerprint)]
        /\ UNCHANGED <<ledger_vars, now, first_proof, thr, req_vars>>

NextLedger == AnchorCall \/ VerifyCall \/ GetProofCall \/ Tick

SpecLedger == InitLedger /\ [][NextLedger]_vars

\* C4: an anchor call for a fingerprint that is already in the ledger returns
\* the proof the first anchor call for that fingerprint returned, whatever
\* metadata it is given, and leaves the proof map, the chain and the storage
\* file as they were.
AnchorIdempotent ==
    [][(/\ ret'.fn = "anchor_chain_fingerprint"
        /\ ret'.fingerprint \in DOMAIN in_memory_anchors)
       => (/\ ~ret'.raised
           /\ ret'.value = first_proof[ret'.fingerprint]
           /\ in_memory_anchors' = in_memory_anchors
           /\ chain' = chain
           /\ storage' = storage)]_vars

\* the metadata hashed into the block of a proof
MintedMetadata(proof) == proof.block_hash[2][1].metadata

\* a re-anchor with other metadata than the first call's has returned
WitnessAnchorIdempotent ==
    /\ ret.fn = "anchor_chain_fingerprint"
    /\ ~ret.raised
    /\ MetadataOrEmpty(ret.arg) # MintedMetadata(ret.value)
    /\ ret.value = first_proof[ret.fingerprint]
    /\ now > ret.value.timestamp

\* C5: once anchor(fingerprint) has returned a proof, verify(fingerprint) and
\* verify(fingerprint, that proof) return (True, None) in every later state,
\* and every such verify call made has returned (True, None).
VerifyAfterAnchor ==
    /\ \A f \in DOMAIN first_proof :
          /\ VerifyAnchor(CurrentLedger, f, NoProof) = <<TRUE, None>>
          /\ VerifyAnchor(CurrentLedger, f, first_proof[f]) = <<TRUE, None>>
    /\ (/\ ret.fn = "verify_anchor"
        /\ ret.fingerprint \in DOMAIN first_proof
        /\ ret.arg \in {NoProof, first_proof[ret.fingerprint]})
       => ret.value = <<TRUE, None>>

\* verify with the returned proof has answered for the first of two anchored fingerprints
WitnessVerifyAfterAnchor ==
    /\ ret.fn = "verify_anchor"
    /\ Len(chain) = 2
    /\ ret.fingerprint = chain[1].fingerprint
    /\ ret.arg = first_proof[ret.fingerprint]
    /\ ret.value = <<TRUE, None>>

-----------------------------------------------------------------------------
(* Concurrent requests on one ledger instance.  Each request runs the anchor *)
(* section of verify_delegation_chain (verify_anchor, then                   *)
(* anchor_chain_fingerprint) with no lock: a step is one statement group of  *)
(* the source and steps of different requests interleave freely.             *)

Thread(pc, fingerprint, metadata, proof) ==
    [pc |-> pc, fingerprint |-> fingerprint, metadata |-> metadata, anchor_proof |-> proof]

InitConc ==
    /\ in_memory_anchors = EmptyMap
    /\ chain = <<>>
    /\ storage = NoFile
    /\ storage_path = TRUE
    /\ now = StartTime
    /\ ret = NoCall
    /\ first_proof = EmptyMap
    /\ thr = [t \in 1..NumThreads |-> Idle]
    /\ request_cvc = NoCvc
    /\ status_files = StandardFiles
    /\ verifier_key = TRUE
    /\ anchor_instance = TRUE
    /\ first_vro = NoVro
    /\ vp_token = NoVpToken
    /\ worker2 = NoWorker

\* a request reaches "if require_anchor:" with its chain fingerprint computed
StartRequest(t) ==
    /\ thr[t].pc = "idle"
    /\ \E fingerprint \in Fingerprints \ {EmptyString}, metadata \in Metadatas \ {NoProof} :
          thr' = [thr EXCEPT ![t] = Thread("verify", fingerprint, metadata, NoProof)]
    /\ UNCHANGED <<ledger_vars, now, ret, first_proof, req_vars>>

\* is_anchored, error_msg = anchor.verify_anchor(chain_fingerprint)
StepVerify(t) ==
    /\ thr[t].pc = "verify"
    /\ thr' = [thr EXCEPT ![t].pc =
                 IF VerifyAnchor(CurrentLedger, thr[t].fingerprint, NoProof)[1]
                 THEN "done" ELSE "check"]
    /\ UNCHANGED <<ledger_vars, now, ret, first_proof, req_vars>>

\* anchor_chain_fingerprint: the already-anchored check
StepCheck(t) ==
    /\ thr[t].pc = "check"
    /\ thr' = [thr EXCEPT ![t] =
                 IF AlreadyAnchored(CurrentLedger, thr[t].fingerprint)
                 THEN Thread("done", thr[t].fingerprint, thr[t].metadata,
                             in_memory_anchors[thr[t].fingerprint])
                 ELSE Thread("create", thr[t].fingerprint, thr[t].metadata, NoProof)]
    /\ UNCHANGED <<ledger_vars, now, ret, first_proof, req_vars>>

\* anchor_chain_fingerprint: block number, hashes and proof from the chain as read now
StepCreate(t) ==
    /\ thr[t].pc = "create"
    /\ thr' = [thr EXCEPT ![t] =
                 Thread("store", thr[t].fingerprint, thr[t].metadata,
                        NewAnchorProof(CurrentLedger, thr[t].fingerprint, thr[t].metadata, now))]
    /\ UNCHANGED <<ledger_vars, now, ret, first_proof, req_vars>>

\* self._in_memory_anchors[fingerprint] = anchor_proof
StepStore(t) ==
    /\ thr[t].pc = "store"
    /\ in_memory_anchors' = Put(in_memory_anchors, thr[t].fingerprint, thr[t].anchor_proof)
    /\ thr' = [thr EXCEPT ![t].pc = "append"]
    /\ UNCHANGED <<chain, storage, storage_path, now, ret, first_proof, req_vars>>

\* self._chain.append({...})
StepAppend(t) ==
    /\ thr[t].pc = "append"
    /\ chain' = Append(chain, ChainEntry(thr[t].anchor_proof, thr[t].fingerprint))
    /\ thr' = [thr EXCEPT ![t].pc = "save"]
    /\ UNCHANGED <<in_memory_anchors, storage, storage_path, now, ret, first_proof, req_vars>>

\* self._save_to_storage(); return anchor_proof
StepSave(t) ==
    /\ thr[t].pc = "save"
    /\ \E wr \in WriteOutcomes : storage' = SaveToStorage(CurrentLedger, now, wr)
    /\ thr' = [thr EXCEPT ![t].pc = "done"]
    /\ ret' = [fn |-> "anchor_chain_fingerprint", fingerprint |-> thr[t].fingerprint,
               arg |-> thr[t].metadata, raised |-> FALSE, value |-> thr[t].anchor_proof]
    /\ UNCHANGED <<in_memory_anchors, chain, storage_path, now, first_proof, req_vars>>

NextConc ==
    \/ \E t \in 1..NumThreads :
          \/ StartRequest(t) \/ StepVerify(t) \/ StepCheck(t) \/ StepCreate(t)
          \/ StepStore(t) \/ StepAppend(t) \/ StepSave(t)
    \/ Tick

SpecConc == InitConc /\ [][NextConc]_vars

\* C3: under any interleaving of concurrent requests anchoring the same new
\* fingerprint, at most one block is minted for it: the chain never holds two
\* entries with the same fingerprint.
OneBlockPerFingerprint ==
    \A i, j \in 1..Len(chain) : chain[i].fingerprint = chain[j].fingerprint => i = j

-----------------------------------------------------------------------------
(* Requests.  Tokens and payloads as the minting scripts sign them, the CVC  *)
(* as the gateway's build_cvc assembles it from a request and a policy.      *)

IssuerKid == "bank-ed25519-1"

\* jwt.encode(payload, private_key, algorithm=alg, headers={"kid": kid}); sig
\* says whether the signature verifies under the JWKS key
Token(kid, alg, sig, pld) == [hdr |-> [kid |-> kid, alg |-> alg], sig |-> sig, pld |-> pld]

\* a time later than every clock read of a run, skew included
Far == StartTime + MaxTime + DefaultClockSkew + 2

\* a time earlier than every clock read of a run, skew included
LongAgo == StartTime - DefaultClockSkew - 1

Scope(resource, actions) == [resource |-> resource, actions |-> actions]

\* the payload of a delegation grant
DgPayload(sub, nbf, exp, scope, key_binding, url) ==
    [iss |-> "did:example:holder", sub |-> sub, nbf |-> nbf, exp |-> exp,
     dg |-> [scope |-> scope, key_binding |-> key_binding, status |-> [url |-> url]]]

\* the payload of a credential
VcPayload(nbf, exp, url) ==
    [iss |-> "did:example:bank", sub |-> "did:example:holder", nbf |-> nbf, exp |-> exp,
     vc |-> [credentialStatus |-> [statusListCredential |-> url, statusListIndex |-> 0]]]

\* a string that is no JWT
MalformedToken == [malformed |-> TRUE]

\* jwt.get_unverified_header and jwt.decode without signature verification
\* raise no InvalidTokenError on the token
Decodes(token) == token # MalformedToken

RECURSIVE ParseDgJwts_StopsAtFirst(_)
ParseDgJwts_StopsAtFirst(tokens) ==
    IF tokens = <<>> \/ ~Decodes(Head(tokens)) THEN <<>>
    ELSE <<[hdr |-> Head(tokens).hdr, pld |-> Head(tokens).pld, raw |-> Head(tokens)]>>
         \o ParseDgJwts_StopsAtFirst(Tail(tokens))

\* parse_dg_jwts: one {hdr, pld, raw} per token that decodes, in the order
\* of the input; the others are skipped with a warning
ParseDgJwts(tokens) ==
    LET Entries(decoded) ==
            [i \in 1..Len(decoded) |->
                [hdr |-> decoded[i].hdr, pld |-> decoded[i].pld, raw |-> decoded[i]]]
    IN Entries(SelectSeq(tokens, Decodes))

\* policy P-001 as shipped
BasePolicy ==
    [absent |-> {}, id |-> "P-001", alg_allowlist |-> {"EdDSA"},
     holder_binding_required |-> TRUE, max_delegation_depth |-> DefaultMaxDepth,
     clock_skew_seconds |-> DefaultClockSkew, require_anchor |-> FALSE,
     status_required |-> TRUE]

\* a policy dictionary without the key
Without(P, key) == [P EXCEPT !.absent = @ \cup {key}]

HolderProof == [present |-> TRUE, type |-> "JWS", proof |-> "demo-nonce-signature"]

\* build_cvc for a VC-JWT presentation
BuildCvcJwt(vc_token, dg_tokens, P, holder_binding) ==
    [absent |-> {},
     I_issuer |-> vc_token.pld.iss,
     I_subject |-> vc_token.pld.sub,
     C |-> <<[issuer |-> vc_token.pld.iss, credentialSubject |-> vc_token.pld.sub]>>,
     pi |-> [type |-> "JWS", alg |-> vc_token.hdr.alg, kid |-> vc_token.hdr.kid],
     Delta |-> ParseDgJwts(dg_tokens),
     P |-> P,
     S |-> vc_token.pld.vc.credentialStatus,
     M |-> [absent |-> {"raw_vc_ld"}, request_id |-> "req-1", profile_hint |-> "VC-JWT",
            raw_vc_jwt |-> vc_token, raw_vc_ld |-> NoCredential,
            holder_binding_ok |-> holder_binding # NoBinding,
            holder_binding |-> holder_binding]]

\* build_cvc for a VC-LD presentation of the same credential: the JSON-LD
\* document carries the claims of vc_token.pld and an embedded proof
BuildCvcLd(vc_token, dg_tokens, P, holder_binding) ==
    [absent |-> {},
     I_issuer |-> vc_token.pld.iss,
     I_subject |-> vc_token.pld.sub,
     C |-> <<[issuer |-> vc_token.pld.iss, credentialSubject |-> vc_token.pld.sub]>>,
     pi |-> [type |-> "Ed25519Signature2020", alg |-> vc_token.hdr.alg, kid |-> vc_token.hdr.kid],
     Delta |-> ParseDgJwts(dg_tokens),
     P |-> P,
     S |-> vc_token.pld.vc.credentialStatus,
     M |-> [absent |-> {"raw_vc_jwt"}, request_id |-> "req-1", profile_hint |-> "VC-LD",
            raw_vc_jwt |-> NoToken,
            raw_vc_ld |-> [issuer |-> vc_token.pld.iss,
                           credentialSubject |-> vc_token.pld.sub,
                           validFrom |-> vc_token.pld.nbf,
                           validUntil |-> vc_token.pld.exp,
                           credentialStatus |-> vc_token.pld.vc.credentialStatus,
                           proof |-> vc_token.sig],
            holder_binding_ok |-> holder_binding # NoBinding,
            holder_binding |-> holder_binding]]

\* a credential token of the issuer; "" as url stands for no status list
MintVc(sig, exp, url) == Token(IssuerKid, "EdDSA", sig, VcPayload(LongAgo, exp, url))

\* a credential that passes every check of verify_vc_jwt
GoodVc == MintVc(TRUE, Far, UrlActive)

\* a delegation token of the issuer
MintDg(sig, nbf, exp, scope, url) ==
    Token(IssuerKid, "EdDSA", sig,
          DgPayload("did:example:agent", nbf, exp, scope,
                    [present |-> TRUE, kid |-> "agent-key-1"], url))

\* a delegation that passes every per-element check
GoodDg(scope) == MintDg(TRUE, LongAgo, Far, scope, UrlActive)

\* the shipped policy without the key, and with each of the values for it
PoliciesOver(key, values) ==
    {Without(BasePolicy, key)} \cup {[BasePolicy EXCEPT ![key] = v] : v \in values}

\* all sequences over S of length lo..hi
SeqsOf(S, lo, hi) == UNION {[1..n -> S] : n \in lo..hi}

-----------------------------------------------------------------------------
(* One gateway process serving one request at a time.  What varies inside a  *)
(* call and is not an input: when the second changes, how this PyJWT treats  *)
(* exp = now, whether the write of the ledger file succeeds.                 *)

Envs == [tick_at : 1..5, strict_exp : BOOLEAN, wr : WriteOutcomes]

\* the tokens of a request: the credential, if a JWT, and the delegations
RequestTokens(cvc) ==
    {cvc.Delta[i].raw : i \in 1..Len(cvc.Delta)}
    \cup (IF Get(cvc.M, "raw_vc_jwt", NoToken) = NoToken THEN {} ELSE {cvc.M.raw_vc_jwt})

\* some nbf or exp of the request lies near the clock readings of a run
TimeSensitive(cvc) ==
    \E token \in RequestTokens(cvc) : {token.pld.nbf, token.pld.exp} \ {NoInt, LongAgo, Far} # {}

\* a chain verification of the request may write to the ledger
MayAnchor(cvc, anchor) ==
    Get(cvc.P, "require_anchor", FALSE) /\ anchor /\ Len(cvc.Delta) > 0

\* the part of Envs a call on cvc can tell apart.  The PyJWT variant and the
\* read before which the second changes show only through an nbf or exp near
\* the clock; without one, only an anchoring call reads the clock to any
\* effect (read 4, its timestamps).  The write outcome shows only when the
\* call anchors.
EnvsFor(cvc, may_anchor) ==
    {e \in Envs :
        /\ ~TimeSensitive(cvc) => (e.strict_exp /\ e.tick_at \in (IF may_anchor THEN {4, 5} ELSE {5}))
        /\ ~may_anchor => e.wr = "ok"}

\* the request, the files and the configuration of a run; the ledger is empty
InitRequests(cvcs, files, keys, anchors) ==
    /\ in_memory_anchors = EmptyMap
    /\ chain = <<>>
    /\ storage = NoFile
    /\ storage_path = TRUE
    /\ now = StartTime
    /\ ret = NoCall
    /\ first_proof = EmptyMap
    /\ thr = [t \in 1..NumThreads |-> Idle]
    /\ request_cvc \in cvcs
    /\ status_files \in files
    /\ verifier_key \in keys
    /\ anchor_instance \in anchors
    /\ first_vro = NoVro
    /\ vp_token = NoVpToken
    /\ worker2 = NoWorker

\* success, code, result = verify_cvc(cvc, jwks_issuer, jwks_verifier)
CallVerifyCvc ==
    \E e \in EnvsFor(request_cvc, MayAnchor(request_cvc, anchor_instance)) :
        \E r \in {VerifyCvc(request_cvc, now, e, status_files, verifier_key,
                             CurrentLedger, anchor_instance)} :
        /\ in_memory_anchors' = r.L.anchors
        /\ chain' = r.L.chain
        /\ storage' = r.L.storage
        /\ ret' = [fn |-> "verify_cvc", t |-> now, chain_len |-> Len(chain),
                   success |-> r.success, code |-> r.code, stage |-> r.stage,
                   vro |-> r.vro, result |-> r.result]
        /\ first_vro' = IF r.success /\ first_vro = NoVro
                        THEN [t |-> now, chain_len |-> Len(chain), vro |-> r.vro]
                        ELSE first_vro
        /\ UNCHANGED <<storage_path, now, first_proof, thr, request_cvc, status_files,
                       verifier_key, anchor_instance, vp_token, worker2>>

\* success, code, info = verify_delegation_chain(delta, jwks_path, policy)
CallVerifyDelegationChain ==
    \E e \in EnvsFor(request_cvc, MayAnchor(request_cvc, anchor_instance)) :
        \E r \in {VerifyDelegationChain(Get(request_cvc, "Delta", <<>>), request_cvc.P, now, e,
                                         status_files, CurrentLedger, anchor_instance)} :
        /\ in_memory_anchors' = r.L.anchors
        /\ chain' = r.L.chain
        /\ storage' = r.L.storage
        /\ ret' = [fn |-> "verify_delegation_chain", t |-> now, success |-> r.success,
                   code |-> r.code, err |-> r.err, info |-> r.info,
                   passes |-> r.passes, status_errors |-> r.status_errors,
                   clock_now |-> Clock(now, e, 3), clock_end |-> Clock(now, e, 4)]
        /\ UNCHANGED <<storage_path, now, first_proof, thr, req_vars>>

\* success, code, info = verify_vc_jwt({"jwt": raw_vc_jwt}, jwks_issuer, policy)
CallVerifyVcJwt ==
    /\ Get(request_cvc.M, "raw_vc_jwt", NoToken) # NoToken
    /\ \E e \in EnvsFor(request_cvc, FALSE) :
          \E r \in {VerifyVcJwt(request_cvc.M.raw_vc_jwt, request_cvc.P, now, e, status_files)} :
          ret' = [fn |-> "verify_vc_jwt", t |-> now, success |-> r.success, code |-> r.code,
                  err |-> r.err, iss |-> r.iss, sub |-> r.sub,
                  status_error |-> VcStatusErrorRaised(request_cvc.M.raw_vc_jwt, request_cvc.P,
                                                       now, e, status_files)]
    /\ UNCHANGED <<ledger_vars, now, first_proof, thr, req_vars>>

NextVerifier == CallVerifyCvc \/ CallVerifyDelegationChain \/ CallVerifyVcJwt \/ Tick

-----------------------------------------------------------------------------
(* Scope containment *)

Scopes ==
    {Scope(resource, actions) : resource \in {"acct-1", "acct-2"},
                                actions \in {{"view"}, {"view", "pay"}}}

\* chains of 1..MaxChainLen delegations of any scopes, valid otherwise but
\* for a signature that does not verify on delegation number bad, if any
ScopeChains(bads) ==
    {[i \in 1..Len(scopes) |-> MintDg(i # bad, LongAgo, Far, scopes[i], UrlActive)] :
        scopes \in SeqsOf(Scopes, 1, MaxChainLen), bad \in bads}

\* the chains, all validly signed or with a bad signature on the first or on
\* the last delegation, under the shipped policy; the validly signed ones
\* also under a policy that allows a depth of 2
InitScope ==
    InitRequests({BuildCvcJwt(GoodVc, tokens, BasePolicy, HolderProof) :
                     tokens \in ScopeChains({0, 1, MaxChainLen})}
                 \cup {BuildCvcJwt(GoodVc, tokens,
                                   [BasePolicy EXCEPT !.max_delegation_depth = 2], HolderProof) :
                          tokens \in ScopeChains({0})},
                 {StandardFiles}, {TRUE}, {TRUE})

SpecScope == InitScope /\ [][NextVerifier]_vars

\* the chain of the request, as payloads
RequestScopes == [i \in 1..Len(request_cvc.Delta) |-> request_cvc.Delta[i].pld.dg.scope]

\* element i > 1 of the chain keeps within the scope of element i - 1
Contained(i) ==
    /\ RequestScopes[i].resource = RequestScopes[i - 1].resource
    /\ RequestScopes[i].actions \subseteq RequestScopes[i - 1].actions

\* element i > 1 names the resource of element i - 1 and adds exactly one action
AddsOneAction(i) ==
    /\ RequestScopes[i].resource = RequestScopes[i - 1].resource
    /\ Cardinality(RequestScopes[i].actions \ RequestScopes[i - 1].actions) = 1

\* the call that has returned ran the chain verifier on the request's chain
RanChainVerifier ==
    \/ ret.fn = "verify_delegation_chain"
    \/ ret.fn = "verify_cvc" /\ ret.stage \notin {"structural", "vc"}

\* element i passes the signature, time, revocation and key binding checks
\* at every clock reading of a call started now
PassesOtherChecks(i) ==
    \A e \in Envs :
        LET result == VerifyJws(request_cvc.Delta[i].raw, Clock(now, e, 4), e) IN
        /\ result.ok
        /\ ~(Clock(now, e, 3) < IntOr(result.payload.nbf, 0)
             \/ Clock(now, e, 3) > IntOr(result.payload.exp, 0))
        /\ StatusStep(result.payload.dg.status.url, 0, request_cvc.P, status_files) = "pass"
        /\ ~KeyBindingFails(result.payload)

\* C1 as stated: the chain verifier succeeds only if every element after the
\* first names the resource of its predecessor and holds a subset of its
\* actions, and a chain in which some element adds a single action not held
\* by its predecessor is rejected with code E400.
ScopeContainmentE400 ==
    RanChainVerifier =>
        /\ ret.success => \A i \in 2..Len(request_cvc.Delta) : Contained(i)
        /\ (\E i \in 2..Len(request_cvc.Delta) : AddsOneAction(i))
              => (~ret.success /\ ret.code = DG_SCOPE_ESCALATION)

\* C1 amended: the chain verifier succeeds only if every element after the
\* first is contained in its predecessor; a chain with an element that adds a
\* single action is always rejected, and with code E400 when the chain is
\* within the depth limit and every element up to the first one that is not
\* contained passes the checks made before the scope check.
ScopeContainment ==
    RanChainVerifier =>
        /\ ret.success => \A i \in 2..Len(request_cvc.Delta) : Contained(i)
        /\ (\E i \in 2..Len(request_cvc.Delta) : AddsOneAction(i)) => ~ret.success
        /\ \A i \in 2..Len(request_cvc.Delta) :
              (/\ ~Contained(i)
               /\ \A j \in 2..(i - 1) : Contained(j)
               /\ \A j \in 1..i : PassesOtherChecks(j)
               /\ Len(request_cvc.Delta) <= MaxDepth(request_cvc.P))
              => (~ret.success /\ ret.code = DG_SCOPE_ESCALATION)

\* a chain of three whose last element adds one action to its predecessor's
\* has been rejected with E400 at that element
WitnessScopeContainment ==
    /\ ret.fn = "verify_delegation_chain"
    /\ Len(request_cvc.Delta) = 3
    /\ Contained(2)
    /\ AddsOneAction(3)
    /\ ~ret.success
    /\ ret.code = DG_SCOPE_ESCALATION
    /\ ret.info.index = 2

-----------------------------------------------------------------------------
(* Depth limit *)

\* delegations by what is wrong with them: nothing, a signature that does not
\* verify, a validity period that ended long ago, a revoked status list, or a
\* scope wider than that of a "good" one
DgKinds == {"good", "badsig", "expired", "revoked", "wide"}

DgOfKind(kind) ==
    MintDg(kind # "badsig", LongAgo, IF kind = "expired" THEN LongAgo ELSE Far,
           Scope("acct-1", IF kind = "wide" THEN {"view", "pay"} ELSE {"view"}),
           IF kind = "revoked" THEN UrlRevoked ELSE UrlActive)

\* chains of up to DefaultMaxDepth + 1 delegations of any kinds, under
\* policies with no depth limit of their own and with limits 0 and 2
InitDepth ==
    InitRequests({BuildCvcJwt(GoodVc, [i \in 1..Len(kinds) |-> DgOfKind(kinds[i])], P,
                              HolderProof) :
                     kinds \in SeqsOf(DgKinds, 0, DefaultMaxDepth + 1),
                     P \in PoliciesOver("max_delegation_depth", {0, 2})},
                 {StandardFiles}, {TRUE}, {TRUE})

SpecDepth == InitDepth /\ [][NextVerifier]_vars

\* C2: a chain of length max depth + 1 (3 + 1 when the policy sets no depth)
\* always fails with E300 as DG_DEPTH, whatever its elements are, and no
\* element is examined: the loop makes no pass and the failure reports the
\* limit and the length.
DepthCheckedFirst ==
    (RanChainVerifier /\ Len(request_cvc.Delta) = MaxDepth(request_cvc.P) + 1) =>
        /\ ~ret.success
        /\ ret.code = "E300"
        /\ ret.fn = "verify_delegation_chain" =>
              /\ ret.err = "DG_DEPTH"
              /\ ret.passes = 0
              /\ ret.info = DgInfo(NoInt, NoInt, NoFingerprint,
                                   MaxDepth(request_cvc.P), Len(request_cvc.Delta))
        /\ ret.fn = "verify_cvc" =>
              ret.result = [stage |-> "dg",
                            info |-> DgInfo(NoInt, NoInt, NoFingerprint,
                                            MaxDepth(request_cvc.P), Len(request_cvc.Delta))]

\* a chain of 3 + 1 elements under a policy without a depth, beginning with a
\* bad signature and holding a revoked and an expired element, has failed
\* with DG_DEPTH
WitnessDepthCheckedFirst ==
    /\ ret.fn = "verify_delegation_chain"
    /\ ~Has(request_cvc.P, "max_delegation_depth")
    /\ Len(request_cvc.Delta) = DefaultMaxDepth + 1
    /\ ~request_cvc.Delta[1].raw.sig
    /\ \E i \in 2..Len(request_cvc.Delta) : request_cvc.Delta[i].pld.dg.status.url = UrlRevoked
    /\ \E i \in 2..Len(request_cvc.Delta) : request_cvc.Delta[i].pld.exp = LongAgo
    /\ ret.err = "DG_DEPTH"

-----------------------------------------------------------------------------
(* Validity period of a delegation *)

\* delegations valid but for their period: nbf and exp around the clock
\* readings of a run, exp also absent
TimedDgs ==
    {MintDg(TRUE, nbf, exp, Scope("acct-1", {"view"}), UrlActive) :
        nbf \in {LongAgo} \cup (StartTime..(StartTime + MaxTime + 1)),
        exp \in {NoInt, Far} \cup ((StartTime - 1)..(StartTime + MaxTime + 1))}

\* chains of one timed delegation, alone or after a valid one
TimeChains ==
    {<<dg>> : dg \in TimedDgs}
    \cup {<<GoodDg(Scope("acct-1", {"view"})), dg>> : dg \in TimedDgs}

InitTime ==
    InitRequests({BuildCvcJwt(GoodVc, tokens, BasePolicy, HolderProof) : tokens \in TimeChains},
                 {StandardFiles}, {TRUE}, {TRUE})

SpecTime == InitTime /\ [][NextVerifier]_vars

\* the last element of the request's chain, the one with the period
TimedElement == request_cvc.Delta[Len(request_cvc.Delta)].pld

\* C9: an element for which the current time ("now" of the chain verifier)
\* lies outside [nbf, exp] makes the chain verifier fail with E300 as DG_TIME,
\* a chain of depth 1 with exp in the past included, and a current time equal
\* to nbf or to exp is accepted (the second not changing during the call).
DgTimeWindow ==
    (ret.fn = "verify_delegation_chain" /\ TimedElement.exp # NoInt) =>
        /\ (ret.clock_now < TimedElement.nbf \/ ret.clock_now > TimedElement.exp)
              => (/\ ~ret.success
                  /\ ret.code = DG_TIME
                  /\ ret.err = "DG_TIME"
                  /\ ret.info.index = Len(request_cvc.Delta) - 1)
        /\ (/\ ret.clock_now = ret.clock_end
            /\ TimedElement.nbf <= ret.clock_now
            /\ ret.clock_now <= TimedElement.exp
            /\ ret.clock_now \in {TimedElement.nbf, TimedElement.exp})
              => ret.success

-----------------------------------------------------------------------------
(* Status documents that cannot be fetched *)

\* delegations valid but for their status list and, after a {"view"} one,
\* their scope
StatusDgs ==
    {MintDg(TRUE, LongAgo, Far, Scope("acct-1", actions), url) :
        url \in {UrlActive, UrlRevoked}, actions \in {{"view"}, {"view", "pay"}}}

\* credentials valid but for their status list and chains of up to two of the
\* delegations, with the status_required flag absent, true and false, in
\* every state of the two status files
InitStatus ==
    InitRequests({BuildCvcJwt(MintVc(TRUE, Far, url), tokens, P, HolderProof) :
                     url \in {UrlActive, UrlRevoked, ""},
                     tokens \in SeqsOf(StatusDgs, 0, 2),
                     P \in PoliciesOver("status_required", BOOLEAN)},
                 [active : FileStates, revoked : FileStates], {TRUE}, {TRUE})

SpecStatus == InitStatus /\ [][NextVerifier]_vars

\* fetch_status(url) raises StatusError with the files as they are
FetchFails(url) == url \notin {None, ""} /\ ~FetchStatus(url, status_files).ok

\* the policy of the request requires status: the flag is true or is absent
RequiresStatus ==
    ~Has(request_cvc.P, "status_required") \/ request_cvc.P.status_required

VcStatusUrl == request_cvc.M.raw_vc_jwt.pld.vc.credentialStatus.statusListCredential
DgStatusUrl(k) == request_cvc.Delta[k].pld.dg.status.url

\* C6: when the fetch of a status document fails, the credential or the
\* delegation element fails with E300 (STATUS_FETCH_ERROR) if the policy's
\* status_required is true or absent; if it is false the verification goes on
\* to the following checks as if the status were not revoked: the credential
\* is accepted, and the element is rejected only by its scope check, the loop
\* otherwise passing on to the next element or succeeding after the last.
StatusFetchFailure ==
    /\ (ret.fn = "verify_vc_jwt" /\ FetchFails(VcStatusUrl)) =>
          IF RequiresStatus
          THEN ~ret.success /\ ret.code = "E300" /\ ret.err = "STATUS_FETCH_ERROR"
          ELSE ret.success /\ ret.code = OK
    /\ (ret.fn = "verify_cvc" /\ FetchFails(VcStatusUrl)) =>
          IF RequiresStatus
          THEN ~ret.success /\ ret.code = "E300" /\ ret.stage = "vc"
               /\ ret.result.info = "STATUS_FETCH_ERROR"
          ELSE ret.stage # "vc"
    /\ ret.fn = "verify_delegation_chain" =>
          \A k \in 1..ret.passes :
              FetchFails(DgStatusUrl(k)) =>
                  IF RequiresStatus
                  THEN /\ ~ret.success
                       /\ ret.code = "E300"
                       /\ ret.err = "STATUS_FETCH_ERROR"
                       /\ ret.info.index = k - 1
                  ELSE IF k > 1 /\ ~Contained(k)
                  THEN /\ ~ret.success
                       /\ ret.err = "DG_SCOPE_ESCALATION"
                       /\ ret.info.index = k - 1
                  ELSE IF k = Len(request_cvc.Delta)
                  THEN ret.success
                  ELSE ret.passes > k

\* under a policy without the flag, the second element of a chain, whose
\* status file is missing, has failed with STATUS_FETCH_ERROR after a first
\* element whose status was fetched
WitnessStatusFetchFailure ==
    /\ ret.fn = "verify_delegation_chain"
    /\ ~Has(request_cvc.P, "status_required")
    /\ Len(request_cvc.Delta) = 2
    /\ ~FetchFails(DgStatusUrl(1))
    /\ FetchFails(DgStatusUrl(2))
    /\ status_files.revoked = "missing"
    /\ ret.err = "STATUS_FETCH_ERROR"
    /\ ret.code = "E300"
    /\ ret.info.index = 1
    /\ ret.status_errors = 1

-----------------------------------------------------------------------------
(* One credential presented as VC-JWT and as VC-LD *)

\* credentials by validity period, status list and signature
ProfileVcs ==
    {MintVc(sig, exp, url) :
        sig \in BOOLEAN, exp \in {LongAgo, Far}, url \in {UrlActive, UrlRevoked, ""}}

\* no chain, a valid chain of one and a chain of two that escalates
ProfileChains ==
    {<<>>, <<GoodDg(Scope("acct-1", {"view"}))>>,
     <<GoodDg(Scope("acct-1", {"view"})), GoodDg(Scope("acct-1", {"view", "pay"}))>>}

\* the credentials in both profiles, with the chains, with status_required
\* true and false, with and without a holder binding, with the active status
\* file in place and missing
InitProfile ==
    InitRequests({BuildCvcJwt(vc, tokens, P, hb) :
                     vc \in ProfileVcs, tokens \in ProfileChains,
                     P \in {BasePolicy, [BasePolicy EXCEPT !.status_required = FALSE]},
                     hb \in {NoBinding, HolderProof}}
                 \cup {BuildCvcLd(vc, tokens, P, hb) :
                          vc \in ProfileVcs, tokens \in ProfileChains,
                          P \in {BasePolicy, [BasePolicy EXCEPT !.status_required = FALSE]},
                          hb \in {NoBinding, HolderProof}},
                 {StandardFiles, [active |-> "missing", revoked |-> "flagged"]}, {TRUE}, {TRUE})

SpecProfile == InitProfile /\ [][NextVerifier]_vars

\* the tokens of the request's chain
RequestChain == [i \in 1..Len(request_cvc.Delta) |-> request_cvc.Delta[i].raw]

\* the request's credential as a VC-JWT: the token itself, or the claims and
\* the proof of the JSON-LD document as a signed token
CredentialAsJwt ==
    IF request_cvc.M.profile_hint = "VC-JWT" THEN request_cvc.M.raw_vc_jwt
    ELSE Token(IssuerKid, "EdDSA", request_cvc.M.raw_vc_ld.proof,
               VcPayload(request_cvc.M.raw_vc_ld.validFrom, request_cvc.M.raw_vc_ld.validUntil,
                         request_cvc.M.raw_vc_ld.credentialStatus.statusListCredential))

\* the CVC of the same credential, policy, chain and holder binding in the
\* other profile
OtherProfile ==
    IF request_cvc.M.profile_hint = "VC-JWT"
    THEN BuildCvcLd(CredentialAsJwt, RequestChain, request_cvc.P, request_cvc.M.holder_binding)
    ELSE BuildCvcJwt(CredentialAsJwt, RequestChain, request_cvc.P, request_cvc.M.holder_binding)

\* C8: two CVCs with logically equivalent credentials, one VC-JWT and one
\* VC-LD, and the same policy, chain and holder binding get the same
\* accept/reject decision from verify_cvc, but for the signature check that
\* VC-LD skips (the credential's signature is one that verifies).
ProfileEquivalence ==
    (ret.fn = "verify_cvc" /\ CredentialAsJwt.sig) =>
        \A e \in EnvsFor(OtherProfile, MayAnchor(OtherProfile, anchor_instance)) :
            VerifyCvc(OtherProfile, ret.t, e, status_files, verifier_key,
                      CurrentLedger, anchor_instance).success = ret.success

-----------------------------------------------------------------------------
(* Repeated verification of one CVC, at different times, on a ledger that    *)
(* other requests anchor to                                                  *)

\* a valid credential with no chain and with valid chains of one and of two,
\* with and without require_anchor, with and without an anchor service
InitRun ==
    InitRequests({BuildCvcJwt(GoodVc, tokens, P, HolderProof) :
                     tokens \in {<<>>, <<GoodDg(Scope("acct-1", {"view"}))>>,
                                 <<GoodDg(Scope("acct-1", {"view", "pay"})),
                                   GoodDg(Scope("acct-1", {"view"}))>>},
                     P \in {BasePolicy, [BasePolicy EXCEPT !.require_anchor = TRUE]}},
                 {StandardFiles}, {TRUE}, BOOLEAN)

\* the fingerprint of the chain of another request
OtherFingerprint == Sha256(<<[chain_id |-> 1]>>)

\* another request has its chain anchored: anchor_chain_fingerprint with the
\* fingerprint of a chain that is not this request's
OtherRequestAnchors ==
    /\ anchor_instance
    /\ \E fingerprint \in {OtherFingerprint}, wr \in WriteOutcomes :
          \E r \in {AnchorChainFingerprint(CurrentLedger, fingerprint,
                                           [depth |-> 1, policy_id |-> "P-001", timestamp |-> now],
                                           now, wr)} :
              /\ in_memory_anchors' = r.L.anchors
              /\ chain' = r.L.chain
              /\ storage' = r.L.storage
    /\ UNCHANGED <<storage_path, now, ret, first_proof, thr, req_vars>>

NextRun == NextVerifier \/ OtherRequestAnchors

SpecRun == InitRun /\ [][NextRun]_vars

\* C7: every successful run of verify_cvc on the CVC builds the VRO payload
\* the first successful run built, field by field (cvc_id, the timestamp
\* constant, policy_ref, issuer, subject, depth, decision, assurance,
\* chain_fingerprint), whatever the second of the run and whatever the ledger
\* held before it.
VroDeterministic ==
    (ret.fn = "verify_cvc" /\ ret.success) =>
        /\ first_vro # NoVro
        /\ ret.vro = first_vro.vro
        /\ ret.vro.timestamp = DETERMINISTIC_TIMESTAMP
        /\ ret.result.vro_jwt.payload = first_vro.vro

\* a chain of two has been verified again, a second later than its first
\* successful run, on a ledger that held more blocks than at the first run,
\* and its fingerprint was anchored
WitnessVroDeterministic ==
    /\ ret.fn = "verify_cvc"
    /\ ret.success
    /\ first_vro # NoVro
    /\ ret.t > first_vro.t
    /\ ret.chain_len > first_vro.chain_len
    /\ Len(request_cvc.Delta) = 2
    /\ ret.vro.chain_fingerprint \in DOMAIN in_memory_anchors

-----------------------------------------------------------------------------
(* Requests with and without a delegation chain *)

\* credentials with no chain and with a valid chain of one, with the
\* holder_binding_required flag absent, true and false, with and without
\* require_anchor, with and without a holder binding and a signing key
InitBaseline ==
    InitRequests({BuildCvcJwt(vc, tokens, [P EXCEPT !.require_anchor = anchor], hb) :
                     vc \in ProfileVcs,
                     tokens \in {<<>>, <<GoodDg(Scope("acct-1", {"view"}))>>},
                     P \in PoliciesOver("holder_binding_required", BOOLEAN),
                     anchor \in BOOLEAN, hb \in {NoBinding, HolderProof}},
                 {StandardFiles}, BOOLEAN, {TRUE})

SpecBaseline == InitBaseline /\ [][NextVerifier]_vars

\* the request's VC-JWT is valid at every clock reading of a call started at
\* second t: signed by a JWKS key with EdDSA, within its validity period, and
\* with no status list or one that can be fetched and does not flag it
ValidVcJwt(t) ==
    LET token == request_cvc.M.raw_vc_jwt IN
    /\ token.sig
    /\ token.hdr.kid \in JwksKids
    /\ token.hdr.alg = "EdDSA"
    /\ token.pld.nbf # NoInt /\ token.pld.nbf <= t
    /\ token.pld.exp # NoInt /\ token.pld.exp > t + 1
    /\ \/ token.pld.vc.credentialStatus.statusListCredential \in {None, ""}
       \/ /\ ~FetchFails(token.pld.vc.credentialStatus.statusListCredential)
          /\ ~IsRevoked(FetchStatus(token.pld.vc.credentialStatus.statusListCredential,
                                    status_files), 0)

\* C10: with an empty delegation chain, a valid VC-JWT and a policy whose
\* holder_binding_required is false (the verifier's signing key installed),
\* verify_cvc succeeds and the VRO has delegation_chain_depth 0 and
\* chain_fingerprint null.
EmptyChainVerified ==
    (/\ ret.fn = "verify_cvc"
     /\ Len(request_cvc.Delta) = 0
     /\ request_cvc.M.profile_hint = "VC-JWT"
     /\ ValidVcJwt(ret.t)
     /\ Has(request_cvc.P, "holder_binding_required")
     /\ ~request_cvc.P.holder_binding_required
     /\ verifier_key)
    => /\ ret.success
       /\ ret.code = OK
       /\ ret.vro.delegation_chain_depth = 0
       /\ ret.vro.chain_fingerprint = NoFingerprint
       /\ ret.result.vro_jwt.payload.delegation_chain_depth = 0
       /\ ret.result.vro_jwt.payload.chain_fingerprint = NoFingerprint

\* a request with no chain and no holder binding has been verified under a
\* policy that requires anchoring but no holder binding, and nothing was anchored
WitnessEmptyChainVerified ==
    /\ ret.fn = "verify_cvc"
    /\ ret.success
    /\ Len(request_cvc.Delta) = 0
    /\ ValidVcJwt(ret.t)
    /\ ~request_cvc.P.holder_binding_required
    /\ request_cvc.P.require_anchor
    /\ request_cvc.M.holder_binding = NoBinding
    /\ ret.vro.delegation_chain_depth = 0
    /\ ret.vro.chain_fingerprint = NoFingerprint
    /\ chain = <<>>

-----------------------------------------------------------------------------
(* Depth and fingerprint of a verified chain *)

\* the payloads of the request's chain, in chain order
RequestPayloads == [i \in 1..Len(request_cvc.Delta) |-> request_cvc.Delta[i].raw.pld]

\* element i of the request's chain is signed by a key of the issuer's JWKS,
\* is within its validity period at a second of a call started at t (which
\* reads the clock at t or t + 1), is not flagged by its status
\* list, which can be fetched unless the policy does not require it, names a
\* kid if it carries a key binding and, after the first, keeps within the
\* scope of its predecessor
ElementValid(i, t) ==
    LET dg == request_cvc.Delta[i].raw
        url == dg.pld.dg.status.url
        status_file == IF url = UrlRevoked THEN status_files.revoked ELSE status_files.active
    IN
    /\ dg.sig
    /\ dg.hdr.kid \in JwksKids
    /\ \E second \in {t, t + 1} : dg.pld.nbf <= second /\ second <= dg.pld.exp
    /\ url \notin {None, ""} =>
          /\ status_file # "flagged"
          /\ status_file \in {"missing", "malformed"} =>
                (Has(request_cvc.P, "status_required") /\ ~request_cvc.P.status_required)
    /\ dg.pld.dg.key_binding.present => dg.pld.dg.key_binding.kid \notin {None, ""}
    /\ i > 1 => Contained(i)

\* C11: when chain verification succeeds on a non-empty chain, the reported
\* depth is the number of elements of the chain and the reported fingerprint
\* is the hash over the payloads of all elements in chain order, each of
\* which passed every check; the VRO of a verify_cvc call that succeeds on
\* the chain carries these two values.
VerifiedChainResult ==
    /\ (ret.fn = "verify_delegation_chain" /\ ret.success /\ Len(request_cvc.Delta) > 0) =>
              /\ ret.info.depth = Len(request_cvc.Delta)
              /\ ret.info.chain_fingerprint = Sha256(RequestPayloads)
              /\ \A i \in 1..Len(request_cvc.Delta) : ElementValid(i, ret.t)
    /\ (ret.fn = "verify_cvc" /\ ret.success /\ Len(request_cvc.Delta) > 0) =>
              /\ ret.vro.delegation_chain_depth = Len(request_cvc.Delta)
              /\ ret.vro.chain_fingerprint = Sha256(RequestPayloads)
              /\ ret.result.vro_jwt.payload.delegation_chain_depth = Len(request_cvc.Delta)
              /\ ret.result.vro_jwt.payload.chain_fingerprint = Sha256(RequestPayloads)
              /\ \A i \in 1..Len(request_cvc.Delta) : ElementValid(i, ret.t)

\* verify_cvc has succeeded on a chain of two elements with different
\* payloads, and its VRO carries depth 2 and the hash over both in order
WitnessVerifiedChainResult ==
    /\ ret.fn = "verify_cvc"
    /\ ret.success
    /\ Len(request_cvc.Delta) = 2
    /\ RequestPayloads[1] # RequestPayloads[2]
    /\ ret.vro.delegation_chain_depth = 2
    /\ ret.vro.chain_fingerprint = Sha256(<<RequestPayloads[1], RequestPayloads[2]>>)

-----------------------------------------------------------------------------
(* Top-level fields of the CVC *)

\* the keys build_cvc gives a CVC: issuer, subject, claims, proofs,
\* delegationChain, policy, status and metadata
TopLevelFields == {"I_issuer", "I_subject", "C", "pi", "Delta", "P", "S", "M"}

\* CVCs of every credential of the profile family with no chain and with a
\* valid chain of one, complete and lacking one top-level field
InitStructure ==
    InitRequests({BuildCvcJwt(vc, tokens, BasePolicy, HolderProof) :
                     vc \in ProfileVcs,
                     tokens \in {<<>>, <<GoodDg(Scope("acct-1", {"view"}))>>}}
                 \cup {Without(BuildCvcJwt(vc, tokens, BasePolicy, HolderProof), field) :
                          vc \in ProfileVcs,
                          tokens \in {<<>>, <<GoodDg(Scope("acct-1", {"view"}))>>},
                          field \in TopLevelFields},
                 {StandardFiles}, {TRUE}, {TRUE})

SpecStructure == InitStructure /\ [][NextVerifier]_vars

\* the request with its chain replaced by an empty one
WithEmptyChain == [request_cvc EXCEPT !.absent = @ \ {"Delta"}, !.Delta = <<>>]

-----------------------------------------------------------------------------
(* Stages of verify_cvc *)

\* credentials that pass, fail the signature check (100) and are revoked (E200)
StageVcs == {GoodVc, MintVc(FALSE, Far, UrlActive), MintVc(TRUE, Far, UrlRevoked)}

\* no chain, a valid chain, and chains that fail the signature check (100),
\* the revocation check (E300) and the scope check (E400)
StageChains ==
    {<<>>, <<DgOfKind("good")>>, <<DgOfKind("badsig")>>, <<DgOfKind("revoked")>>,
     <<DgOfKind("good"), DgOfKind("wide")>>}

\* the shipped policy, with require_anchor, and without its id
StagePolicies ==
    {BasePolicy, [BasePolicy EXCEPT !.require_anchor = TRUE],
     Without([BasePolicy EXCEPT !.require_anchor = TRUE], "id")}

\* requests that can fail at each stage: complete or lacking the status
\* field, with and without a holder binding and a request id; with and
\* without a signing key and an anchor service
InitStages ==
    InitRequests({[cvc EXCEPT !.absent = top, !.M = [@ EXCEPT !.absent = @ \cup metadata]] :
                     cvc \in {BuildCvcJwt(vc, tokens, P, hb) :
                                 vc \in StageVcs, tokens \in StageChains, P \in StagePolicies,
                                 hb \in {NoBinding, HolderProof}},
                     top \in {{}, {"S"}},
                     metadata \in {{}, {"request_id"}}},
                 {StandardFiles}, BOOLEAN, BOOLEAN)

SpecStages == InitStages /\ [][NextVerifier]_vars

\* the order of the stages
StageOrder == <<"structural", "vc", "dg", "holder_binding", "vro", "sign">>

\* the chain verifier's result on the request's chain for a call started at t
\* (in this family the same under every environment and ledger)
ChainStageResult(t) ==
    CHOOSE r \in {VerifyDelegationChain(Get(request_cvc, "Delta", <<>>), request_cvc.P, t, e,
                                        status_files, CurrentLedger, anchor_instance) :
                     e \in EnvsFor(request_cvc, MayAnchor(request_cvc, anchor_instance))} : TRUE

\* the credential verifier's result on the request's VC-JWT
VcStageResult(t) ==
    CHOOSE r \in {VerifyVcJwt(request_cvc.M.raw_vc_jwt, request_cvc.P, t, e, status_files) :
                     e \in EnvsFor(request_cvc, FALSE)} : TRUE

\* the stage fails on the request, taken by itself
StageFails(stage, t) ==
    CASE stage = "structural" ->
            \E field \in {"I_issuer", "I_subject", "C", "pi", "P", "S", "M"} :
                field \in request_cvc.absent
      [] stage = "vc" -> ~VcStageResult(t).success
      [] stage = "dg" -> ~ChainStageResult(t).success
      [] stage = "holder_binding" ->
            /\ Get(request_cvc.P, "holder_binding_required", TRUE)
            /\ request_cvc.M.holder_binding = NoBinding
      [] stage = "vro" ->
            "request_id" \in request_cvc.M.absent \/ "id" \in request_cvc.P.absent
      [] stage = "sign" -> ~verifier_key

\* the code a failure of the stage returns
StageCode(stage, t) ==
    CASE stage = "structural" -> "100"
      [] stage = "vc" -> VcStageResult(t).code
      [] stage = "dg" -> ChainStageResult(t).code
      [] stage = "holder_binding" -> "E500"
      [] stage \in {"vro", "sign"} -> "E900"

\* C13: verify_cvc runs its stages in the order structural, credential,
\* chain, holder binding, VRO construction, signing and stops at the first
\* that fails: it returns at the first stage of the order that fails on the
\* request, with that stage's code, and succeeds when none fails; a failure
\* at the structural or the credential stage leaves the ledger as it was (no
\* chain verification ran), and a failure before the signing stage signs no VRO.
StagesInOrder ==
    ret.fn = "verify_cvc" =>
        /\ ret.success <=> \A k \in 1..Len(StageOrder) : ~StageFails(StageOrder[k], ret.t)
        /\ ret.success => ret.stage = "done"
        /\ \A k \in 1..Len(StageOrder) :
              (/\ StageFails(StageOrder[k], ret.t)
               /\ \A j \in 1..(k - 1) : ~StageFails(StageOrder[j], ret.t))
              => /\ ret.stage = StageOrder[k]
                 /\ ret.code = StageCode(StageOrder[k], ret.t)
                 /\ k <= 2 => Len(chain) = ret.chain_len
                 /\ k <= 5 => ret.vro = NoVro
                 /\ "vro_jwt" \notin DOMAIN ret.result

\* a request with a valid credential and chain but no holder binding has
\* been rejected with E500 after its chain was anchored, and no VRO was built
WitnessStagesInOrder ==
    /\ ret.fn = "verify_cvc"
    /\ ret.stage = "holder_binding"
    /\ ret.code = "E500"
    /\ Len(chain) = ret.chain_len + 1
    /\ ret.vro = NoVro
    /\ ~verifier_key
    /\ "request_id" \in request_cvc.M.absent

-----------------------------------------------------------------------------
(* require_anchor without an anchor service *)

\* the policy asks for anchoring, no anchor service is configured, and the
\* call that has returned verified the request's non-empty chain
AnchorRequiredButMissing ==
    /\ RanChainVerifier
    /\ Get(request_cvc.P, "require_anchor", FALSE)
    /\ ~anchor_instance
    /\ Len(request_cvc.Delta) > 0

\* C14 as stated: with require_anchor true and no anchor service configured,
\* verification of a non-empty chain is rejected.
AnchorRequiredRejects == AnchorRequiredButMissing => ~ret.success

\* C14 amended: with require_anchor true and no anchor service configured,
\* chain verification skips the anchoring requirement: it returns what it
\* returns under the same policy with require_anchor false, and nothing is
\* anchored.
AnchorRequiredSkipped ==
    (AnchorRequiredButMissing /\ ret.fn = "verify_delegation_chain") =>
        /\ \A e \in EnvsFor(request_cvc, FALSE) :
              \E r \in {VerifyDelegationChain(request_cvc.Delta,
                                              [request_cvc.P EXCEPT !.require_anchor = FALSE],
                                              ret.t, e, status_files, CurrentLedger, FALSE)} :
                  /\ ret.success = r.success
                  /\ ret.code = r.code
                  /\ ret.info = r.info
        /\ chain = <<>>
        /\ in_memory_anchors = EmptyMap

\* a valid chain of one has been accepted under a policy that requires
\* anchoring, with no anchor service configured and nothing anchored
WitnessAnchorRequiredSkipped ==
    /\ AnchorRequiredButMissing
    /\ ret.fn = "verify_delegation_chain"
    /\ ret.success
    /\ ret.info.depth = 1
    /\ chain = <<>>

-----------------------------------------------------------------------------
(* Policies that lack a field *)

\* the keys of a policy file that the verifier reads
PolicyFields ==
    {"max_delegation_depth", "status_required", "require_anchor", "holder_binding_required",
     "alg_allowlist", "clock_skew_seconds", "id"}

\* a valid credential with no chain and with a valid chain of one; with no
\* holder binding and with one whose proof is missing, empty, not a string
\* and well-formed; under the shipped policy, under that policy lacking one
\* field and under one that does not require a holder binding; with the
\* active status file in place and missing
InitPolicy ==
    InitRequests({BuildCvcJwt(GoodVc, tokens, P, hb) :
                     tokens \in {<<>>, <<DgOfKind("good")>>},
                     P \in {BasePolicy, [BasePolicy EXCEPT !.holder_binding_required = FALSE]}
                           \cup {Without(BasePolicy, field) : field \in PolicyFields},
                     hb \in {NoBinding}
                            \cup {[HolderProof EXCEPT !.proof = proof] :
                                     proof \in {None, "", NonStringProof, HolderProof.proof}}},
                 {StandardFiles, [active |-> "missing", revoked |-> "flagged"]}, {TRUE}, {TRUE})

SpecPolicy == InitPolicy /\ [][NextVerifier]_vars

\* the value the verifier is said to use for a field the policy lacks
PolicyDefaults ==
    [max_delegation_depth |-> 3, status_required |-> TRUE, require_anchor |-> FALSE,
     holder_binding_required |-> TRUE, alg_allowlist |-> {"EdDSA"}, clock_skew_seconds |-> 5]

\* the request with the field its policy lacks set to the default
WithDefault(field) ==
    [request_cvc EXCEPT !.P = [@ EXCEPT !.absent = {}, ![field] = PolicyDefaults[field]]]

\* C15 as stated: verification with a policy that lacks any one of its fields
\* ends in rejection, never in a signed VRO.
PolicyFieldMissingRejects ==
    (ret.fn = "verify_cvc" /\ \E field \in PolicyFields : ~Has(request_cvc.P, field))
    => (~ret.success /\ "vro_jwt" \notin DOMAIN ret.result)

\* C15 amended: verification with a policy that lacks its id ends in
\* rejection, never in a signed VRO; a policy that lacks one of the other
\* fields is verified as the same policy with the default for the field (depth
\* 3, status required, no anchoring, holder binding required, EdDSA only,
\* skew 5).
PolicyFieldMissingDefaults ==
    ret.fn = "verify_cvc" =>
        /\ ~Has(request_cvc.P, "id") => (~ret.success /\ "vro_jwt" \notin DOMAIN ret.result)
        /\ \A field \in PolicyFields \ {"id"} :
              request_cvc.P.absent = {field} =>
                  \A e \in EnvsFor(WithDefault(field), FALSE) :
                      \E r \in {VerifyCvc(WithDefault(field), ret.t, e, status_files,
                                          verifier_key, CurrentLedger, anchor_instance)} :
                          /\ ret.success = r.success
                          /\ ret.code = r.code
                          /\ ret.result = r.result
                          /\ chain = <<>>

\* a request with a valid credential, chain and holder binding under a policy
\* that lacks only its id has been rejected with E900
WitnessPolicyFieldMissingDefaults ==
    /\ ret.fn = "verify_cvc"
    /\ request_cvc.P.absent = {"id"}
    /\ Len(request_cvc.Delta) = 1
    /\ request_cvc.M.holder_binding = HolderProof
    /\ status_files = StandardFiles
    /\ ~ret.success
    /\ ret.code = "E900"

-----------------------------------------------------------------------------
(* Holder binding *)

\* the policy requires a holder binding: the flag is true or absent
HolderBindingRequired ==
    ~Has(request_cvc.P, "holder_binding_required") \/ request_cvc.P.holder_binding_required

\* the holder-binding metadata is missing or empty, or its proof is missing,
\* empty or not a string
HolderBindingUnusable ==
    \/ ~Has(request_cvc.M, "holder_binding")
    \/ request_cvc.M.holder_binding = NoBinding
    \/ request_cvc.M.holder_binding.proof \in {None, "", NonStringProof}

\* the request with a well-formed holder binding in place of its own
WithHolderProof == [request_cvc EXCEPT !.M.holder_binding = HolderProof]

\* C16: at the holder-binding stage (the credential and the chain have
\* passed), when the policy's holder_binding_required is true or absent,
\* verify_cvc fails with E500 if the holder-binding metadata is missing or
\* empty or its proof is missing, empty or not a string, and passes the stage
\* otherwise; when the flag is false the metadata has no effect: the call
\* returns what it returns with a well-formed holder binding.
HolderBindingDecides ==
    ret.fn = "verify_cvc" =>
        /\ (HolderBindingRequired /\ HolderBindingUnusable
            /\ ret.stage \notin {"structural", "vc", "dg"})
           => (~ret.success /\ ret.code = "E500" /\ ret.stage = "holder_binding")
        /\ (HolderBindingRequired /\ ~HolderBindingUnusable)
           => (ret.stage # "holder_binding" /\ ret.code # "E500")
        /\ ~HolderBindingRequired
           => \A e \in EnvsFor(request_cvc, FALSE) :
                 \E r \in {VerifyCvc(WithHolderProof, ret.t, e, status_files, verifier_key,
                                     CurrentLedger, anchor_instance)} :
                     /\ ret.success = r.success
                     /\ ret.code = r.code
                     /\ ret.result = r.result

\* a request with a valid credential and chain whose holder binding carries a
\* proof that is not a string has been rejected with E500 under a policy that
\* lacks the flag
WitnessHolderBindingDecides ==
    /\ ret.fn = "verify_cvc"
    /\ ~Has(request_cvc.P, "holder_binding_required")
    /\ request_cvc.M.holder_binding # NoBinding
    /\ request_cvc.M.holder_binding.proof = NonStringProof
    /\ Len(request_cvc.Delta) = 1
    /\ ~ret.success
    /\ ret.code = "E500"
    /\ ret.result = [reason |-> "invalid_proof_structure"]

-----------------------------------------------------------------------------
(* Exceptions inside verify_cvc *)

\* an exception is raised in verify_cvc after the holder-binding stage: the
\* KeyError of a missing request id or policy id, or the ValueError of
\* sign_vro without the verifier's private key
ExceptionRaised(t) ==
    /\ \A k \in 1..4 : ~StageFails(StageOrder[k], t)
    /\ StageFails("vro", t) \/ StageFails("sign", t)

-----------------------------------------------------------------------------
(* Decision, code and VRO of verify_cvc *)

\* the codes of a failure
FailureCodes == {"100", "E200", "E300", "E400", "E500", "E900"}

\* C18: verify_cvc returns success = true exactly when the code is OK and
\* exactly when the result holds a signed vro_jwt (the signed token over the
\* VRO it built); on every failure the code is one of 100, E200, E300, E400,
\* E500, E900 and the result holds no vro_jwt.
SuccessCodeAndVro ==
    ret.fn = "verify_cvc" =>
        /\ ret.success <=> ret.code = "OK"
        /\ ret.success <=> "vro_jwt" \in DOMAIN ret.result
        /\ ret.success =>
              /\ ret.vro # NoVro
              /\ ret.result.vro_jwt.payload = ret.vro
              /\ ret.result.vro_jwt.header.alg = "EdDSA"
        /\ ~ret.success => ret.code \in FailureCodes

\* a request whose chain widens the delegated scope has been rejected with
\* E400 although the signing key is in place, and the result holds no VRO
WitnessSuccessCodeAndVro ==
    /\ ret.fn = "verify_cvc"
    /\ verifier_key
    /\ Len(request_cvc.Delta) = 2
    /\ ~ret.success
    /\ ret.code = "E400"
    /\ ret.vro = NoVro
    /\ DOMAIN ret.result = {"stage", "info"}

-----------------------------------------------------------------------------
(* Key binding of a delegation element *)

\* chains of one and two delegations that pass, fail the signature check, are
\* revoked or widen the scope, each with no key binding or a key binding
\* whose kid is missing, empty, a key of the issuer's JWKS or a key the JWKS
\* does not hold, under the shipped policy and under a depth limit of 1
InitKeyBinding ==
    InitRequests({BuildCvcJwt(GoodVc,
                              [i \in 1..Len(kinds) |->
                                  [DgOfKind(kinds[i]) EXCEPT !.pld.dg.key_binding = bindings[i]]],
                              P, HolderProof) :
                     kinds \in SeqsOf({"good", "badsig", "revoked", "wide"}, 1, 2),
                     bindings \in SeqsOf({NoBinding}
                                          \cup {[present |-> TRUE, kid |-> kid] :
                                                   kid \in {None, "", IssuerKid, "agent-key-1"}},
                                          2, 2),
                     P \in {BasePolicy, [BasePolicy EXCEPT !.max_delegation_depth = 1]}},
                 {StandardFiles}, {TRUE}, {FALSE})

SpecKeyBinding == InitKeyBinding /\ [][NextVerifier]_vars

\* the key binding of element i of the request's chain
KeyBindingOf(i) == request_cvc.Delta[i].raw.pld.dg.key_binding

\* the loop reaches the key-binding step of element i: the chain is within
\* the depth limit, the elements before i pass every check and element i
\* passes the signature, time and status checks
ReachesKeyBinding(i, t) ==
    /\ Len(request_cvc.Delta) <= MaxDepth(request_cvc.P)
    /\ \A j \in 1..(i - 1) : ElementValid(j, t)
    /\ \E dg \in {request_cvc.Delta[i].raw} :
          /\ dg.sig
          /\ dg.hdr.kid \in JwksKids
          /\ \E second \in {t, t + 1} : dg.pld.nbf <= second /\ second <= dg.pld.exp
          /\ dg.pld.dg.status.url = UrlActive
          /\ status_files.active = "clear"

\* the request's chain with the kid of element i's key binding replaced
WithKid(i, kid) ==
    [request_cvc.Delta EXCEPT ![i] =
        [@ EXCEPT !.pld.dg.key_binding.kid = kid, !.raw.pld.dg.key_binding.kid = kid]]

\* C19: for a delegation element that carries key-binding data and whose
\* key-binding step is reached: if the kid is missing or empty, chain
\* verification fails with E200 (KEY_BINDING_UNVERIFIED) at that element; if
\* the kid is non-empty but not in the issuer's JWKS, verification does not
\* fail on that account: it goes on to the scope check (E400 at that element
\* if it widens its predecessor's scope) and returns what it returns for the
\* same chain with a kid the JWKS holds.
KeyBindingKid ==
    ret.fn = "verify_delegation_chain" =>
        \A i \in 1..Len(request_cvc.Delta) :
            KeyBindingOf(i) # NoBinding =>
                /\ (KeyBindingOf(i).kid \in {None, ""} /\ ReachesKeyBinding(i, ret.t))
                   => /\ ~ret.success
                      /\ ret.code = "E200"
                      /\ ret.err = "KEY_BINDING_UNVERIFIED"
                      /\ ret.info.index = i - 1
                /\ (KeyBindingOf(i).kid \notin {None, ""} /\ ~KeyExistsInJwks(KeyBindingOf(i).kid))
                   => /\ (ReachesKeyBinding(i, ret.t) /\ i > 1 /\ ~Contained(i))
                         => (ret.code = "E400" /\ ret.info.index = i - 1)
                      /\ (ReachesKeyBinding(i, ret.t) /\ (i > 1 => Contained(i)))
                         => ~(ret.err = "KEY_BINDING_UNVERIFIED" /\ ret.info.index = i - 1)
                      /\ \A e \in EnvsFor(request_cvc, FALSE) :
                            \E r \in {VerifyDelegationChain(WithKid(i, IssuerKid), request_cvc.P,
                                                            ret.t, e, status_files,
                                                            CurrentLedger, anchor_instance)} :
                                /\ ret.success = r.success
                                /\ ret.code = r.code
                                /\ ret.err = r.err
                                /\ ret.info.index = r.info.index
                                /\ ret.info.depth = r.info.depth

\* a chain of two has been rejected with E400 at its second element, whose
\* key binding names a kid the JWKS does not hold and whose scope is wider
\* than its predecessor's
WitnessKeyBindingKid ==
    /\ ret.fn = "verify_delegation_chain"
    /\ Len(request_cvc.Delta) = 2
    /\ KeyBindingOf(2) # NoBinding
    /\ KeyBindingOf(2).kid = "agent-key-1"
    /\ ~KeyExistsInJwks(KeyBindingOf(2).kid)
    /\ ReachesKeyBinding(2, ret.t)
    /\ ~ret.success
    /\ ret.code = "E400"
    /\ ret.info.index = 1

-----------------------------------------------------------------------------
(* Algorithm allowlist *)

\* credentials whose header claims EdDSA, ES256 and none, with a signature
\* that verifies and one that does not, under the shipped policy, a policy
\* without an allowlist and policies that allow ES256 only and both; with no
\* chain and a valid chain of one
InitAlgorithm ==
    InitRequests({BuildCvcJwt([MintVc(sig, Far, UrlActive) EXCEPT !.hdr.alg = alg],
                              tokens, P, HolderProof) :
                     alg \in {"EdDSA", "ES256", "none"},
                     sig \in BOOLEAN,
                     tokens \in {<<>>, <<DgOfKind("good")>>},
                     P \in PoliciesOver("alg_allowlist",
                                        {{"EdDSA"}, {"ES256"}, {"EdDSA", "ES256"}})},
                 {StandardFiles}, {TRUE}, {FALSE})

SpecAlgorithm == InitAlgorithm /\ [][NextVerifier]_vars

\* C20: a VC-JWT whose header claims an algorithm outside the policy's
\* allowlist (and that is otherwise in order: its kid is in the JWKS and its
\* signature verifies) is rejected by verify_vc_jwt's allowlist check, code
\* E200 (ALG), and verify_jws does not reject it because of its algorithm.
AlgRejectedByAllowlist ==
    (/\ ret.fn = "verify_vc_jwt"
     /\ request_cvc.M.raw_vc_jwt.sig
     /\ request_cvc.M.raw_vc_jwt.hdr.alg
           \notin Get(request_cvc.P, "alg_allowlist", {"EdDSA"}))
    => /\ ~ret.success
       /\ ret.code = "E200"
       /\ ret.err = "ALG"
       /\ \A e \in EnvsFor(request_cvc, FALSE) :
             VerifyJws(request_cvc.M.raw_vc_jwt, Clock(ret.t, e, 1), e).ok

-----------------------------------------------------------------------------
(* The ledger is append-only *)

\* C21: once a proof is stored for a fingerprint, no anchor, verify or
\* get-proof call for any fingerprint changes or removes it, and no call
\* changes or removes a chain entry; verify_anchor and get_anchor_proof leave
\* the proof map, the chain and the storage file as they were.
AppendOnly ==
    [][/\ \A f \in DOMAIN in_memory_anchors :
             /\ f \in DOMAIN in_memory_anchors'
             /\ in_memory_anchors'[f] = in_memory_anchors[f]
       /\ Len(chain') >= Len(chain)
       /\ SubSeq(chain', 1, Len(chain)) = chain
       /\ ret'.fn \in {"verify_anchor", "get_anchor_proof"}
             => /\ in_memory_anchors' = in_memory_anchors
                /\ chain' = chain
                /\ storage' = storage]_vars

\* a second fingerprint has been anchored at a later second than the first,
\* whose proof and chain entry are still those of its own anchor call
WitnessAppendOnly ==
    /\ ret.fn = "anchor_chain_fingerprint"
    /\ Len(chain) = 2
    /\ ret.fingerprint = chain[2].fingerprint
    /\ ret.value.block_number = 2
    /\ chain[1].timestamp < chain[2].timestamp
    /\ in_memory_anchors[chain[1].fingerprint] = first_proof[chain[1].fingerprint]
    /\ chain[1] = ChainEntry(first_proof[chain[1].fingerprint], chain[1].fingerprint)

-----------------------------------------------------------------------------
(* Persistence of a minted block *)

\* C22: after every anchor call on a ledger with a storage path that mints a
\* new block and returns its proof, the storage file holds exactly the
\* in-memory proof map and the in-memory chain.
MintIsPersisted ==
    [][(/\ ret'.fn = "anchor_chain_fingerprint"
        /\ storage_path
        /\ Len(chain') = Len(chain) + 1
        /\ ~ret'.raised
        /\ ret'.value = in_memory_anchors'[ret'.fingerprint])
       => (/\ storage'.exists
           /\ storage'.anchors = in_memory_anchors'
           /\ storage'.chain = chain')]_vars

-----------------------------------------------------------------------------
(* Block numbers *)

\* C23: in every state reached by sequential anchor calls from the empty
\* ledger, the k-th chain entry has block number k, no fingerprint occurs in
\* the chain twice, the keys of the proof map are the fingerprints of the
\* chain, and the block number of each stored proof is the position of the
\* chain entry that carries its fingerprint.
BlockNumbersSequential ==
    /\ \A k \in 1..Len(chain) : chain[k].block_number = k
    /\ \A j, k \in 1..Len(chain) : chain[j].fingerprint = chain[k].fingerprint => j = k
    /\ DOMAIN in_memory_anchors = {chain[k].fingerprint : k \in 1..Len(chain)}
    /\ \A f \in DOMAIN in_memory_anchors :
          /\ in_memory_anchors[f].block_number \in 1..Len(chain)
          /\ chain[in_memory_anchors[f].block_number].fingerprint = f
          /\ in_memory_anchors[f].proof.chain_position = in_memory_anchors[f].block_number

\* with two blocks minted, the first fingerprint has been anchored again and
\* the call returned the proof of block 1
WitnessBlockNumbersSequential ==
    /\ ret.fn = "anchor_chain_fingerprint"
    /\ Len(chain) = 2
    /\ chain[2].block_number = 2
    /\ ret.fingerprint = chain[1].fingerprint
    /\ ret.value.block_number = 1
    /\ DOMAIN in_memory_anchors = {chain[1].fingerprint, chain[2].fingerprint}

-----------------------------------------------------------------------------
(* A ledger constructed over an existing storage file *)

\* a file json.loads cannot read
CorruptFile == [exists |-> TRUE, corrupt |-> TRUE]

\* _load_from_storage: the map and the chain the constructor starts with
LoadFromStorage(path, file) ==
    IF path /\ file.exists /\ file # CorruptFile
    THEN [anchors |-> file.anchors, chain |-> file.chain]
    ELSE [anchors |-> EmptyMap, chain |-> <<>>]

\* the ledger of an earlier process after it anchored the first n of the
\* fingerprints, one second before the run starts
RECURSIVE EarlierLedger(_)
EarlierLedger(n) ==
    IF n = 0 THEN Ledger(EmptyMap, <<>>, NoFile, TRUE)
    ELSE AnchorChainFingerprint(EarlierLedger(n - 1), Sha256(<<[chain_id |-> n]>>),
                                NoProof, StartTime - 1, "ok").L

\* the files a constructor can find: none, an unreadable one, the files the
\* earlier process wrote after its first and after its last block, and the
\* last one with its chain emptied, cut to its first entry and reversed
StorageFiles ==
    {NoFile, CorruptFile, EarlierLedger(1).storage}
    \cup {[EarlierLedger(NumFingerprints).storage EXCEPT !.chain = c] :
             c \in {EarlierLedger(NumFingerprints).chain,
                    <<>>,
                    SubSeq(EarlierLedger(NumFingerprints).chain, 1, 1),
                    [k \in 1..NumFingerprints |->
                        EarlierLedger(NumFingerprints).chain[NumFingerprints + 1 - k]]}}

\* MockBlockchainAnchor(storage_path) over one of the files; callers hold the
\* proofs the earlier process returned
InitLoaded ==
    /\ storage \in StorageFiles
    /\ storage_path = TRUE
    /\ in_memory_anchors = LoadFromStorage(storage_path, storage).anchors
    /\ chain = LoadFromStorage(storage_path, storage).chain
    /\ now = StartTime
    /\ ret = NoCall
    /\ first_proof = EarlierLedger(NumFingerprints).anchors
    /\ thr = [t \in 1..NumThreads |-> Idle]
    /\ request_cvc = NoCvc
    /\ status_files = StandardFiles
    /\ verifier_key = TRUE
    /\ anchor_instance = TRUE
    /\ first_vro = NoVro
    /\ vp_token = NoVpToken
    /\ worker2 = NoWorker

SpecLoaded == InitLoaded /\ [][NextLedger]_vars

\* the conditions C24 names for the fingerprint and the proof of the last call
VerifyConditions ==
    /\ ret.fingerprint \in DOMAIN in_memory_anchors
    /\ ret.arg # NoProof =>
          /\ ret.arg.proof.fingerprint = ret.fingerprint
          /\ ret.arg.transaction_hash = in_memory_anchors[ret.fingerprint].transaction_hash
    /\ in_memory_anchors[ret.fingerprint].block_number \in 1..Len(chain)
    /\ chain[in_memory_anchors[ret.fingerprint].block_number].fingerprint = ret.fingerprint

\* C24: in any ledger state, including one loaded from storage,
\* verify_anchor(fingerprint, proof) returns (True, None) only if the
\* fingerprint has a stored proof, a supplied proof names the same
\* fingerprint and transaction hash as the stored one, and the chain entry
\* at the stored proof's block number exists and carries the fingerprint; in
\* every other case it returns False with an error message.
VerifyOnlyIfChained ==
    ret.fn = "verify_anchor" =>
        /\ ret.value = <<TRUE, None>> <=> VerifyConditions
        /\ ret.value # <<TRUE, None>> => (ret.value[1] = FALSE /\ ret.value[2] # None)

-----------------------------------------------------------------------------
(* Anchoring of a verified chain *)

\* the policy asks for anchoring, a ledger is configured and the request
\* carries a chain
AnchoringApplies ==
    /\ Get(request_cvc.P, "require_anchor", FALSE)
    /\ anchor_instance
    /\ Len(request_cvc.Delta) > 0

\* the call that returned r ran the chain verifier
RanChain(r) ==
    \/ r.fn = "verify_delegation_chain"
    \/ r.fn = "verify_cvc" /\ r.stage \notin {"structural", "vc"}

\* the call that returned r ran the chain verifier, which returned success
ChainSucceeded(r) ==
    \/ r.fn = "verify_delegation_chain" /\ r.success
    \/ r.fn = "verify_cvc" /\ r.stage \notin {"structural", "vc", "dg"}

-----------------------------------------------------------------------------
(* A valid chain under require_anchor without a ledger *)

\* C26: with require_anchor true and no ledger configured,
\* verify_delegation_chain on a non-empty chain that is within the depth
\* limit and whose elements all pass their checks returns success with the
\* chain's depth and fingerprint, and nothing is anchored or written.
UnanchoredSuccess ==
    (/\ ret.fn = "verify_delegation_chain"
     /\ AnchorRequiredButMissing
     /\ Len(request_cvc.Delta) <= MaxDepth(request_cvc.P)
     /\ \A i \in 1..Len(request_cvc.Delta) : ElementValid(i, ret.t))
    => /\ ret.success
       /\ ret.code = "OK"
       /\ ret.info.depth = Len(request_cvc.Delta)
       /\ ret.info.chain_fingerprint = Sha256(RequestPayloads)
       /\ in_memory_anchors = EmptyMap
       /\ chain = <<>>
       /\ storage = NoFile

\* a second verification of a valid chain of one, a second after the start,
\* has succeeded with its fingerprint under require_anchor without a ledger,
\* and the ledger is still empty
WitnessUnanchoredSuccess ==
    /\ ret.fn = "verify_delegation_chain"
    /\ AnchorRequiredButMissing
    /\ ret.t > StartTime
    /\ ret.success
    /\ ret.info.depth = 1
    /\ ret.info.chain_fingerprint = Sha256(RequestPayloads)
    /\ in_memory_anchors = EmptyMap
    /\ storage = NoFile

-----------------------------------------------------------------------------
(* Order of the checks of the chain loop *)

\* chains of one and two delegations with any combination of a signature
\* that does not verify, an exp that is past or missing, a revoked status
\* list, a key binding without kid and the wider scope, under a policy that
\* requires anchoring, with a ledger configured
InitOrder ==
    InitRequests({BuildCvcJwt(GoodVc, tokens, [BasePolicy EXCEPT !.require_anchor = TRUE],
                              HolderProof) :
                     tokens \in SeqsOf({[MintDg(sig, LongAgo, exp, Scope("acct-1", actions), url)
                                            EXCEPT !.pld.dg.key_binding.kid = kid] :
                                           sig \in BOOLEAN, exp \in {Far, LongAgo, NoInt},
                                           url \in {UrlActive, UrlRevoked},
                                           kid \in {"agent-key-1", ""},
                                           actions \in {{"view"}, {"view", "pay"}}},
                                        1, 2)},
                 {StandardFiles}, {TRUE}, {TRUE})

SpecOrder == InitOrder /\ [][NextVerifier]_vars

\* the checks of the loop body in the order of the source, with their codes
CheckOrder == <<"signature", "time", "status", "key_binding", "scope">>

CheckCode(check) ==
    CASE check = "signature" -> "100"
      [] check \in {"time", "status"} -> "E300"
      [] check = "key_binding" -> "E200"
      [] check = "scope" -> "E400"

\* the check fails on element i of the request's chain, taken by itself, in
\* a call started at t
CheckFails(check, i, t) ==
    LET pld == request_cvc.Delta[i].raw.pld IN
    CASE check = "signature" ->
            \A e \in EnvsFor(request_cvc, TRUE) :
                ~VerifyJws(request_cvc.Delta[i].raw, Clock(t, e, 4), e).ok
      [] check = "time" -> t < IntOr(pld.nbf, 0) \/ t > IntOr(pld.exp, 0)
      [] check = "status" ->
            /\ pld.dg.status.url \notin {None, ""}
            /\ \/ ~FetchStatus(pld.dg.status.url, status_files).ok
                     /\ Get(request_cvc.P, "status_required", TRUE)
               \/ FetchStatus(pld.dg.status.url, status_files).ok
                     /\ IsRevoked(FetchStatus(pld.dg.status.url, status_files), 0)
      [] check = "key_binding" ->
            pld.dg.key_binding # NoBinding /\ pld.dg.key_binding.kid \in {None, ""}
      [] check = "scope" -> i > 1 /\ ~Contained(i)

\* element i fails some check
ElementFails(i, t) == \E k \in 1..Len(CheckOrder) : CheckFails(CheckOrder[k], i, t)

-----------------------------------------------------------------------------
(* Delegation tokens that do not decode *)

\* what a request can present as its delegation chain: up to 3 tokens, each
\* a valid delegation of the narrow or of the wide scope or a string that
\* is no JWT
PresentedChains ==
    SeqsOf({DgOfKind("good"), DgOfKind("wide"), MalformedToken}, 0, 3)

\* requests presenting them with a valid credential, under depth limits 1 and 2
InitDropped ==
    InitRequests({BuildCvcJwt(GoodVc, tokens, [BasePolicy EXCEPT !.max_delegation_depth = depth],
                              HolderProof) :
                     tokens \in PresentedChains, depth \in {1, 2}},
                 {StandardFiles}, {TRUE}, {FALSE})

SpecDropped == InitDropped /\ [][NextVerifier]_vars

\* the tokens of a list that decode, in their order
RECURSIVE DecodableTokens(_)
DecodableTokens(tokens) ==
    IF tokens = <<>> THEN <<>>
    ELSE IF Head(tokens) = MalformedToken THEN DecodableTokens(Tail(tokens))
    ELSE <<Head(tokens)>> \o DecodableTokens(Tail(tokens))

\* the token lists a request can have presented for the chain of the CVC
PresentedFor(delta) == {tokens \in PresentedChains : ParseDgJwts(tokens) = delta}

\* C28: parse_dg_jwts returns one entry for each decodable token of its
\* input, in the original order, and nothing for an undecodable one; the
\* chain that is verified is that subsequence: the depth check compares its
\* length with the limit, the scope of each element is compared with that of
\* the decodable token before it, and the VRO reports its length, so that a
\* request presenting more tokens than the limit is not rejected for depth
\* when few enough of them decode.
UndecodableDropped ==
    /\ \A tokens \in PresentedChains :
          /\ Len(ParseDgJwts(tokens)) = Len(DecodableTokens(tokens))
          /\ \A i \in 1..Len(DecodableTokens(tokens)) :
                /\ ParseDgJwts(tokens)[i].raw = DecodableTokens(tokens)[i]
                /\ ParseDgJwts(tokens)[i].hdr = DecodableTokens(tokens)[i].hdr
                /\ ParseDgJwts(tokens)[i].pld = DecodableTokens(tokens)[i].pld
    /\ \A tokens \in PresentedFor(request_cvc.Delta) :
          /\ ret.fn = "verify_delegation_chain" =>
                /\ ret.err = "DG_DEPTH"
                      <=> Len(DecodableTokens(tokens)) > MaxDepth(request_cvc.P)
                /\ ret.err = "DG_SCOPE_ESCALATION" =>
                      ~ScopeSubset(DecodableTokens(tokens)[ret.info.index + 1].pld.dg.scope,
                                   DecodableTokens(tokens)[ret.info.index].pld.dg.scope)
                /\ ret.success =>
                      /\ ret.info.depth = Len(DecodableTokens(tokens))
                      /\ \A i \in 2..Len(DecodableTokens(tokens)) :
                            ScopeSubset(DecodableTokens(tokens)[i].pld.dg.scope,
                                        DecodableTokens(tokens)[i - 1].pld.dg.scope)
          /\ (ret.fn = "verify_cvc" /\ ret.success) =>
                ret.vro.delegation_chain_depth = Len(DecodableTokens(tokens))

\* verify_cvc has succeeded under a depth limit of 1 on a request that
\* presented three tokens, only one of which decodes: the VRO reports depth 1
WitnessUndecodableDropped ==
    /\ ret.fn = "verify_cvc"
    /\ ret.success
    /\ MaxDepth(request_cvc.P) = 1
    /\ ret.vro.delegation_chain_depth = 1
    /\ \E tokens \in PresentedFor(request_cvc.Delta) :
          /\ Len(tokens) = 3
          /\ tokens[2] # MalformedToken

-----------------------------------------------------------------------------
(* Revoked status documents and tokens without a status URL *)

\* delegations of one scope, valid but for their status list: listed in the
\* active or in the revoked document, or carrying no status URL
RevocationDgs ==
    {MintDg(TRUE, LongAgo, Far, Scope("acct-1", {"view"}), url) :
        url \in {UrlActive, UrlRevoked, ""}}

\* credentials and chains of up to two delegations with and without a
\* status URL, with the status_required flag absent, true and false, in
\* every state of the two status files
InitRevocation ==
    InitRequests({BuildCvcJwt(MintVc(TRUE, Far, url), tokens, P, HolderProof) :
                     url \in {UrlActive, UrlRevoked, ""},
                     tokens \in SeqsOf(RevocationDgs, 0, 2),
                     P \in PoliciesOver("status_required", BOOLEAN)},
                 [active : FileStates, revoked : FileStates], {TRUE}, {TRUE})

SpecRevocation == InitRevocation /\ [][NextVerifier]_vars

\* `if status_url:` is false
NoStatusUrl(url) == url \in {None, ""}

\* fetch_status(url) returns a document for which is_revoked is true
ResolvesRevoked(url) ==
    /\ ~NoStatusUrl(url)
    /\ FetchStatus(url, status_files).ok
    /\ IsRevoked(FetchStatus(url, status_files), 0)

\* C29: a credential whose status URL resolves to a revoked document fails
\* with E200 (VC_REVOKED), in verify_vc_jwt and in the credential stage of
\* verify_cvc; a delegation element that the loop reaches and whose status
\* URL resolves to a revoked document fails with E300 (DG_REVOKED) at its
\* index.  A credential without a status URL is not rejected, and an element
\* without one is passed (the loop goes on to the next element or succeeds
\* after the last), whatever the policy's status_required and whatever the
\* state of the status files.
RevocationDecides ==
    /\ ret.fn = "verify_vc_jwt" =>
          /\ ResolvesRevoked(VcStatusUrl) =>
                ~ret.success /\ ret.code = "E200" /\ ret.err = "VC_REVOKED"
          /\ NoStatusUrl(VcStatusUrl) =>
                ret.success /\ ret.code = OK /\ ~ret.status_error
    /\ ret.fn = "verify_cvc" =>
          /\ ResolvesRevoked(VcStatusUrl) =>
                /\ ~ret.success
                /\ ret.code = "E200"
                /\ ret.result = [stage |-> "vc", info |-> "VC_REVOKED"]
          /\ NoStatusUrl(VcStatusUrl) => ret.stage # "vc"
          /\ (ret.stage # "vc" /\ Len(request_cvc.Delta) > 0
                /\ ResolvesRevoked(DgStatusUrl(1))) =>
                /\ ~ret.success
                /\ ret.code = "E300"
                /\ ret.result.stage = "dg"
                /\ ret.result.info.index = 0
          /\ (NoStatusUrl(VcStatusUrl)
                /\ \A k \in 1..Len(request_cvc.Delta) : NoStatusUrl(DgStatusUrl(k))) =>
                ret.success
    /\ ret.fn = "verify_delegation_chain" =>
          \A k \in 1..ret.passes :
              /\ ResolvesRevoked(DgStatusUrl(k)) =>
                    /\ ~ret.success
                    /\ ret.code = "E300"
                    /\ ret.err = "DG_REVOKED"
                    /\ ret.info.index = k - 1
              /\ NoStatusUrl(DgStatusUrl(k)) =>
                    IF k = Len(request_cvc.Delta) THEN ret.success ELSE ret.passes > k

\* the chain verifier has passed a first element without a status URL, with
\* the flag true and the active status file missing, and rejected the second,
\* whose URL resolves to a revoked document
WitnessRevocationDecides ==
    /\ ret.fn = "verify_delegation_chain"
    /\ Has(request_cvc.P, "status_required") /\ request_cvc.P.status_required
    /\ Len(request_cvc.Delta) = 2
    /\ NoStatusUrl(DgStatusUrl(1))
    /\ ResolvesRevoked(DgStatusUrl(2))
    /\ status_files.active = "missing"
    /\ ret.passes = 2
    /\ ret.err = "DG_REVOKED"

-----------------------------------------------------------------------------
(* Dispatch of the credential stage on the profile hint *)

\* credentials: valid, with a signature that does not verify, expired, revoked
DispatchVcs ==
    {GoodVc, MintVc(FALSE, Far, UrlActive), MintVc(TRUE, LongAgo, UrlActive),
     MintVc(TRUE, Far, UrlRevoked)}

\* CVCs as a caller of verify_cvc can build them: M with any of the keys
\* profile_hint, raw_vc_jwt and raw_vc_ld missing, the hint naming VC-JWT,
\* VC-LD or a profile the verifier does not know, each raw credential the
\* credential or empty, I_issuer the issuer of the credential or another;
\* with no chain and with a valid chain of one
InitDispatch ==
    InitRequests({[BuildCvcJwt(vc, tokens, BasePolicy, HolderProof)
                      EXCEPT !.I_issuer = issuer,
                             !.M = [@ EXCEPT !.absent = missing,
                                             !.profile_hint = profile,
                                             !.raw_vc_jwt = IF jwt THEN vc ELSE NoToken,
                                             !.raw_vc_ld = IF ld
                                                           THEN BuildCvcLd(vc, tokens, BasePolicy,
                                                                           HolderProof).M.raw_vc_ld
                                                           ELSE NoCredential]] :
                     vc \in DispatchVcs,
                     tokens \in {<<>>, <<GoodDg(Scope("acct-1", {"view"}))>>},
                     issuer \in {"did:example:bank", "did:example:other"},
                     missing \in SUBSET {"profile_hint", "raw_vc_jwt", "raw_vc_ld"},
                     profile \in {"VC-JWT", "VC-LD", "SD-JWT"},
                     jwt \in BOOLEAN, ld \in BOOLEAN},
                 {StandardFiles}, {TRUE}, {TRUE})

SpecDispatch == InitDispatch /\ [][NextVerifier]_vars

\* cvc["M"].get("profile_hint", "VC-JWT") of the request
RequestProfile == Get(request_cvc.M, "profile_hint", "VC-JWT")

\* `not raw_vc_jwt`, `not raw_vc_ld`: the key is missing or its value is empty
RawJwtMissing == Get(request_cvc.M, "raw_vc_jwt", NoToken) = NoToken
RawLdMissing == Get(request_cvc.M, "raw_vc_ld", NoCredential) = NoCredential

\* verify_cvc returned from the profile dispatch with code 100 and the message
DispatchRejects(msg) ==
    /\ ~ret.success
    /\ ret.code = "100"
    /\ ret.result = [msg |-> msg]
    /\ ret.vro = NoVro
    /\ chain = <<>>

\* C30: verify_cvc on a CVC with all required fields reads the profile hint
\* (VC-JWT when M has none).  VC-JWT without a raw token and VC-LD without a
\* raw credential return 100; VC-JWT with one returns what verify_vc_jwt
\* returns on it when that fails, and goes on to the chain, reporting the
\* token's iss and sub, when it succeeds; VC-LD with a raw credential goes on
\* to the chain whatever the credential's signature, validity period and
\* status are, reporting I_issuer and I_subject of the CVC; any other
\* profile returns 100.
ProfileDispatch ==
    ret.fn = "verify_cvc" =>
        /\ (RequestProfile = "VC-JWT" /\ RawJwtMissing) =>
              DispatchRejects("missing raw_vc_jwt in M")
        /\ (RequestProfile = "VC-JWT" /\ ~RawJwtMissing) =>
              \E e \in Envs :
                  \E vc \in {VerifyVcJwt(request_cvc.M.raw_vc_jwt, request_cvc.P, ret.t, e,
                                         status_files)} :
                      IF vc.success
                      THEN /\ ret.stage # "vc"
                           /\ ret.success =>
                                 ret.vro.issuer = request_cvc.M.raw_vc_jwt.pld.iss
                                 /\ ret.vro.subject = request_cvc.M.raw_vc_jwt.pld.sub
                      ELSE /\ ~ret.success
                           /\ ret.code = vc.code
                           /\ ret.result = [stage |-> "vc", info |-> vc.err]
        /\ (RequestProfile = "VC-LD" /\ RawLdMissing) =>
              DispatchRejects("missing raw_vc_ld in M")
        /\ (RequestProfile = "VC-LD" /\ ~RawLdMissing) =>
              /\ ret.success
              /\ ret.vro.issuer = request_cvc.I_issuer
              /\ ret.vro.subject = request_cvc.I_subject
        /\ RequestProfile \notin {"VC-JWT", "VC-LD"} =>
              DispatchRejects("Unsupported profile")

\* a VC-LD request has been verified whose raw credential is expired and
\* names another issuer than I_issuer, which is the one the VRO reports; M
\* holds a raw token as well
WitnessProfileDispatch ==
    /\ ret.fn = "verify_cvc"
    /\ RequestProfile = "VC-LD"
    /\ ~RawJwtMissing
    /\ ret.success
    /\ request_cvc.M.raw_vc_ld.validUntil = LongAgo
    /\ request_cvc.M.raw_vc_ld.issuer # request_cvc.I_issuer
    /\ ret.vro.issuer = request_cvc.I_issuer
    /\ Len(request_cvc.Delta) = 1

-----------------------------------------------------------------------------
(* Validity period of the credential *)

\* correctly signed credentials with nbf and exp around the clock readings
\* of a run and around the readings shifted by the clock skew
TimedVcs ==
    {Token(IssuerKid, "EdDSA", TRUE, VcPayload(nbf, exp, UrlActive)) :
        nbf \in {LongAgo} \cup (StartTime..(StartTime + MaxTime + DefaultClockSkew + 1)),
        exp \in {Far} \cup ((StartTime - DefaultClockSkew - 1)..(StartTime + MaxTime + 1))}

\* the credentials without a chain, under policies without clock_skew_seconds
\* and with a skew of 5 and of 1
InitVcTime ==
    InitRequests({BuildCvcJwt(vc, <<>>, P, HolderProof) :
                     vc \in TimedVcs, P \in PoliciesOver("clock_skew_seconds", {5, 1})},
                 {StandardFiles}, {TRUE}, {TRUE})

SpecVcTime == InitVcTime /\ [][NextVerifier]_vars

\* nbf - clock_skew <= now_vc <= exp + clock_skew for the request's credential
InVcWindow(now_vc) ==
    LET clock_skew == Get(request_cvc.P, "clock_skew_seconds", DefaultClockSkew)
        pld == request_cvc.M.raw_vc_jwt.pld
    IN pld.nbf - clock_skew <= now_vc /\ now_vc <= pld.exp + clock_skew

\* C31: verify_vc_jwt on a correctly signed credential that is otherwise
\* valid succeeds when the current time lies in
\* [nbf - clock_skew, exp + clock_skew] (the call reads the clock in second
\* ret.t or in the next), fails when it lies outside, and fails with E200.
VcTimeWindow ==
    ret.fn = "verify_vc_jwt" =>
        /\ (InVcWindow(ret.t) /\ InVcWindow(ret.t + 1)) => ret.success
        /\ (~InVcWindow(ret.t) /\ ~InVcWindow(ret.t + 1)) => ~ret.success
        /\ ~ret.success => ret.code = "E200"

-----------------------------------------------------------------------------
(* What the chain fingerprint depends on *)

\* two valid delegations of one scope to different delegates
FingerprintDgs ==
    {Token(IssuerKid, "EdDSA", TRUE,
           DgPayload(sub, LongAgo, Far, Scope("acct-1", {"view"}),
                     [present |-> TRUE, kid |-> "agent-key-1"], UrlActive)) :
        sub \in {"did:example:agent", "did:example:agent-2"}}

\* policies that differ in id, depth limit and require_anchor
FingerprintPolicies ==
    {BasePolicy, [BasePolicy EXCEPT !.require_anchor = TRUE],
     [BasePolicy EXCEPT !.id = "P-002", !.max_delegation_depth = 2, !.require_anchor = TRUE]}

FingerprintChains == SeqsOf(FingerprintDgs, 0, 2)

\* chains of up to two of the delegations, in both orders, under the
\* policies, with and without an anchor service
InitFingerprint ==
    InitRequests({BuildCvcJwt(GoodVc, tokens, P, HolderProof) :
                     tokens \in FingerprintChains, P \in FingerprintPolicies},
                 {StandardFiles}, {TRUE}, BOOLEAN)

\* the request is verified again and again while other requests anchor
SpecFingerprint == InitFingerprint /\ [][NextRun]_vars

\* the payloads of a list of tokens, in order
PayloadsOf(tokens) == [i \in 1..Len(tokens) |-> tokens[i].pld]

\* the fingerprint reported by the call that has returned
ReportedFingerprint ==
    IF ret.fn = "verify_cvc" THEN ret.vro.chain_fingerprint ELSE ret.info.chain_fingerprint

\* C32: the fingerprint reported for a verified non-empty chain is the one
\* every successful verification of a chain with these payloads in this order
\* reports, under any of the policies, at any second, on the empty ledger and
\* on the ledger as it is now, with and without an anchor service; and a
\* chain with other payloads or another order of them gets another hash
\* input.
FingerprintOfPayloads ==
    (/\ ret.fn \in {"verify_delegation_chain", "verify_cvc"}
     /\ ret.success
     /\ Len(request_cvc.Delta) > 0) =>
        /\ \A P \in FingerprintPolicies, t \in Times, anchor \in BOOLEAN,
              L \in {Ledger(EmptyMap, <<>>, NoFile, TRUE), CurrentLedger} :
              \A e \in EnvsFor(request_cvc, TRUE) :
                  \E r \in {VerifyDelegationChain(request_cvc.Delta, P, t, e, status_files,
                                                  L, anchor)} :
                      /\ r.success
                      /\ r.info.chain_fingerprint = ReportedFingerprint
        /\ \A tokens \in FingerprintChains :
              PayloadsOf(tokens) # RequestPayloads
                  => ChainFingerprint(PayloadsOf(tokens)) # ReportedFingerprint

\* a chain of two has been verified on a ledger that holds blocks, and the
\* chain of the same two delegations in the other order has another
\* fingerprint
WitnessFingerprintOfPayloads ==
    /\ ret.fn = "verify_delegation_chain"
    /\ ret.success
    /\ Len(request_cvc.Delta) = 2
    /\ RequestPayloads[1] # RequestPayloads[2]
    /\ Len(chain) > 1
    /\ ReportedFingerprint = ChainFingerprint(RequestPayloads)
    /\ ReportedFingerprint # ChainFingerprint(<<RequestPayloads[2], RequestPayloads[1]>>)

-----------------------------------------------------------------------------
(* OIDC4VP adapter: gateway/adapters.py, normalize_oidc4vp_response.         *)
(* A vp_token is a compact JWT whose payload is a JSON object, the text of a *)
(* JSON value, or some other text.  JSON values: JList(items), JDict(keys)   *)
(* for an object that is not looked into, JNull.                             *)

JList(items) == [type |-> "list", items |-> items, keys |-> {}]
JDict(keys) == [type |-> "dict", items |-> <<>>, keys |-> keys]
JNull == [type |-> "null", items |-> <<>>, keys |-> {}]

\* the entries of verifiableCredential: compact VC-JWTs and JSON-LD credentials
CredentialEntries ==
    {[str |-> TRUE, id |-> "vc-jwt-1"], [str |-> TRUE, id |-> "vc-jwt-2"],
     [str |-> FALSE, id |-> "vc-ld-1"], [str |-> FALSE, id |-> "vc-ld-2"]}

\* values of verifiableCredential: lists of up to two entries, an object, null
CredentialLists ==
    {JList(items) : items \in SeqsOf(CredentialEntries, 0, 2)} \cup {JDict({"id"}), JNull}

\* values of "vp" in the payload of a VP-JWT: an object with or without
\* verifiableCredential, or a string
VpEnvelopes ==
    {[type |-> "dict", absent |-> {}, verifiableCredential |-> credentials] :
        credentials \in CredentialLists}
    \cup {[type |-> "dict", absent |-> {"verifiableCredential"}, verifiableCredential |-> JNull],
          [type |-> "str", absent |-> {"verifiableCredential"}, verifiableCredential |-> JNull]}

\* payloads of a JWT: with or without vp, delegation_chain and holder_binding
JwtPayloads ==
    {[absent |-> missing, vp |-> vp, delegation_chain |-> <<"dg-jwt-1">>,
      holder_binding |-> HolderProof] :
        vp \in VpEnvelopes, missing \in SUBSET {"delegation_chain", "holder_binding"}}
    \cup {[absent |-> {"vp"} \cup missing, vp |-> JNull, delegation_chain |-> <<"dg-jwt-1">>,
           holder_binding |-> HolderProof] :
             missing \in SUBSET {"delegation_chain", "holder_binding"}}

\* JSON-LD documents: objects with or without "type" (the names it lists)
\* and verifiableCredential
LdDocuments ==
    {[type |-> "dict", absent |-> {}, types |-> types, verifiableCredential |-> credentials] :
        types \in {{}, {"VerifiableCredential"}, {"VerifiablePresentation"}},
        credentials \in CredentialLists}
    \cup {[type |-> "dict", absent |-> missing, types |-> {"VerifiablePresentation"},
           verifiableCredential |-> JList(<<[str |-> FALSE, id |-> "vc-ld-1"]>>)] :
             missing \in {{"type"}, {"verifiableCredential"}}}

\* the tokens: JWTs, JSON texts of an object, of a list and of null, and text
\* that is neither
VpTokens ==
    {[form |-> "jwt", payload |-> payload] : payload \in JwtPayloads}
    \cup {[form |-> "json", value |-> document] : document \in LdDocuments}
    \cup {[form |-> "json", value |-> JList(<<>>)], [form |-> "json", value |-> JNull],
          [form |-> "text"]}

\* the VerificationRequest returned
Normalized(presentation, delegation_chain, holder_binding) ==
    [ok |-> TRUE, raised |-> None,
     request |-> [presentation |-> presentation, policy_id |-> "P-001",
                  delegation_chain |-> delegation_chain, holder_binding |-> holder_binding]]

\* the exception that leaves the function
Raises(exception) == [ok |-> FALSE, raised |-> exception]

\* what leaves the function when exception reaches
\* "except (json.JSONDecodeError, KeyError)": the function imports json in
\* its second branch, which makes json a local name, unbound until that
\* import has run
OuterHandler(exception, json_imported) ==
    IF ~json_imported THEN Raises("UnboundLocalError")
    ELSE IF exception \in {"JSONDecodeError", "KeyError"} THEN Raises("AdapterError")
    ELSE Raises(exception)

\* "not credentials"
Falsy(credentials) ==
    \/ credentials.type = "null"
    \/ credentials.type = "list" /\ credentials.items = <<>>
    \/ credentials.type = "dict" /\ credentials.keys = {}

\* d.get(key) of a payload
GetOrNone(d, key) == IF Has(d, key) THEN d[key] ELSE JNull

\* the branch of a token that decodes as a JWT
NormalizeJwt(token) ==
    LET payload == token.payload IN
    IF ~Has(payload, "vp")
    THEN Normalized([type |-> "VC-JWT", jwt |-> token], JNull, JNull)
    ELSE IF payload.vp.type # "dict" THEN OuterHandler("AttributeError", FALSE)
    ELSE LET credentials == IF Has(payload.vp, "verifiableCredential")
                            THEN payload.vp.verifiableCredential ELSE JList(<<>>)
         IN
         IF Falsy(credentials) THEN OuterHandler("AdapterError", FALSE)
         ELSE IF credentials.type = "dict" THEN OuterHandler("KeyError", FALSE)
         ELSE IF credentials.items[1].str
         THEN Normalized([type |-> "VC-JWT", jwt |-> credentials.items[1]],
                         GetOrNone(payload, "delegation_chain"),
                         GetOrNone(payload, "holder_binding"))
         ELSE Normalized([type |-> "VC-LD", credential |-> credentials.items[1]],
                         GetOrNone(payload, "delegation_chain"),
                         GetOrNone(payload, "holder_binding"))

\* the branch of a token on which jwt raises InvalidTokenError
NormalizeLd(token) ==
    IF token.form # "json" THEN OuterHandler("JSONDecodeError", TRUE)
    ELSE IF token.value.type # "dict" THEN OuterHandler("AttributeError", TRUE)
    ELSE LET vp_ld == token.value
             credentials == IF Has(vp_ld, "verifiableCredential")
                            THEN vp_ld.verifiableCredential ELSE JList(<<>>)
         IN
         IF ~Has(vp_ld, "type") \/ "VerifiablePresentation" \notin vp_ld.types
         THEN OuterHandler("AdapterError", TRUE)
         ELSE IF Falsy(credentials) THEN OuterHandler("AdapterError", TRUE)
         ELSE IF credentials.type = "dict" THEN OuterHandler("KeyError", TRUE)
         ELSE Normalized([type |-> "VC-LD", credential |-> credentials.items[1]], JNull, JNull)

\* normalize_oidc4vp_response(vp_token, presentation_definition, policy_id)
NormalizeOidc4vpResponse(token) ==
    IF token.form = "jwt" THEN NormalizeJwt(token) ELSE NormalizeLd(token)

\* a gateway that has served no request receives one of the tokens
InitOidc4vp ==
    /\ in_memory_anchors = EmptyMap
    /\ chain = <<>>
    /\ storage = NoFile
    /\ storage_path = TRUE
    /\ now = StartTime
    /\ ret = NoCall
    /\ first_proof = EmptyMap
    /\ thr = [t \in 1..NumThreads |-> Idle]
    /\ request_cvc = NoCvc
    /\ status_files = StandardFiles
    /\ verifier_key = TRUE
    /\ anchor_instance = TRUE
    /\ first_vro = NoVro
    /\ vp_token \in VpTokens
    /\ worker2 = NoWorker

\* the gateway receives the authorization response and normalizes its token
CallNormalizeOidc4vp ==
    /\ vp_token # NoVpToken
    /\ \E r \in {NormalizeOidc4vpResponse(vp_token)} :
          ret' = [fn |-> "normalize_oidc4vp_response", t |-> now, ok |-> r.ok,
                  raised |-> r.raised, value |-> r]
    /\ UNCHANGED <<ledger_vars, now, first_proof, thr, req_vars>>

NextOidc4vp == CallNormalizeOidc4vp \/ Tick

SpecOidc4vp == InitOidc4vp /\ [][NextOidc4vp]_vars

\* the token is a JWT whose vp carries a list with at least one credential
VpJwtWithCredential ==
    /\ vp_token.form = "jwt"
    /\ Has(vp_token.payload, "vp")
    /\ vp_token.payload.vp.type = "dict"
    /\ Has(vp_token.payload.vp, "verifiableCredential")
    /\ vp_token.payload.vp.verifiableCredential.type = "list"
    /\ vp_token.payload.vp.verifiableCredential.items # <<>>

\* the token is a JSON-LD VerifiablePresentation with at least one credential
VpLdWithCredential ==
    /\ vp_token.form = "json"
    /\ vp_token.value.type = "dict"
    /\ Has(vp_token.value, "type")
    /\ "VerifiablePresentation" \in vp_token.value.types
    /\ Has(vp_token.value, "verifiableCredential")
    /\ vp_token.value.verifiableCredential.type = "list"
    /\ vp_token.value.verifiableCredential.items # <<>>

\* C33: normalize_oidc4vp_response returns a request with one credential:
\* the first entry of vp.verifiableCredential of a VP-JWT (VC-JWT for a
\* string, VC-LD for an object) with the envelope's delegation_chain and
\* holder_binding; the token itself as VC-JWT, without chain and holder
\* binding, for a JWT without vp; the first entry of verifiableCredential as
\* VC-LD for a JSON-LD VerifiablePresentation; and raises AdapterError on
\* every other token.
CarriesOneCredential ==
    ret.fn = "normalize_oidc4vp_response" =>
        IF VpJwtWithCredential
        THEN LET first_credential == vp_token.payload.vp.verifiableCredential.items[1] IN
             /\ ret.ok
             /\ ret.value.request.presentation
                   = IF first_credential.str THEN [type |-> "VC-JWT", jwt |-> first_credential]
                     ELSE [type |-> "VC-LD", credential |-> first_credential]
             /\ ret.value.request.delegation_chain = GetOrNone(vp_token.payload, "delegation_chain")
             /\ ret.value.request.holder_binding = GetOrNone(vp_token.payload, "holder_binding")
        ELSE IF vp_token.form = "jwt" /\ ~Has(vp_token.payload, "vp")
        THEN /\ ret.ok
             /\ ret.value.request.presentation = [type |-> "VC-JWT", jwt |-> vp_token]
             /\ ret.value.request.delegation_chain = JNull
             /\ ret.value.request.holder_binding = JNull
        ELSE IF VpLdWithCredential
        THEN /\ ret.ok
             /\ ret.value.request.presentation
                   = [type |-> "VC-LD",
                      credential |-> vp_token.value.verifiableCredential.items[1]]
             /\ ret.value.request.delegation_chain = JNull
             /\ ret.value.request.holder_binding = JNull
        ELSE ~ret.ok /\ ret.raised = "AdapterError"

-----------------------------------------------------------------------------
(* The ledger after a verification that fails *)

VerifierCalls == {"verify_cvc", "verify_delegation_chain", "verify_vc_jwt"}

\* the step changes the proof map, the chain or the storage file
LedgerChanges ==
    <<in_memory_anchors, chain, storage>>' # <<in_memory_anchors, chain, storage>>

\* C34 as stated: a verification that returns failure leaves the proof map,
\* the chain and the storage file as they were.
FailureLeavesLedger ==
    [][(ret'.fn \in VerifierCalls /\ ~ret'.success) => ~LedgerChanges]_vars

\* C34 amended: a verification that fails in the structural, the credential
\* or the chain stage leaves the proof map, the chain and the storage file as
\* they were, and the ledger changes only by the block of the request's
\* fingerprint, in a call whose chain stage succeeded under require_anchor;
\* verify_cvc anchors before the stages that follow the chain, so a request
\* that then fails on its holder binding, in building the VRO or in signing
\* it leaves its fingerprint anchored.
FailureBeforeAnchoringLeavesLedger ==
    [][/\ (ret'.fn \in VerifierCalls /\ ~ChainSucceeded(ret')) => ~LedgerChanges
       /\ LedgerChanges =>
             /\ AnchoringApplies
             /\ ChainSucceeded(ret')
             /\ Len(chain') = Len(chain) + 1
             /\ chain'[Len(chain')].fingerprint = Sha256(RequestPayloads)
       /\ (/\ AnchoringApplies
           /\ ret'.fn = "verify_cvc"
           /\ ret'.stage \in {"holder_binding", "vro", "sign"}) =>
             /\ ~ret'.success
             /\ Sha256(RequestPayloads) \in DOMAIN in_memory_anchors'
             /\ \E k \in 1..Len(chain') : chain'[k].fingerprint = Sha256(RequestPayloads)]_vars

\* verify_cvc has failed for a missing holder binding (E500) on a request
\* whose chain it verified, and the ledger and its file hold the block of
\* the chain's fingerprint
WitnessFailureBeforeAnchoringLeavesLedger ==
    /\ ret.fn = "verify_cvc"
    /\ ~ret.success
    /\ ret.stage = "holder_binding"
    /\ ret.code = "E500"
    /\ Len(chain) = 1
    /\ chain[1].fingerprint = Sha256(RequestPayloads)
    /\ storage # NoFile

-----------------------------------------------------------------------------
(* Block numbers under concurrent anchoring *)

\* the requests that have started anchor different fingerprints
DistinctFingerprints ==
    \A t, u \in 1..NumThreads :
        (thr[t].pc # "idle" /\ thr[u].pc # "idle" /\ t # u)
            => thr[t].fingerprint # thr[u].fingerprint

\* C35: while concurrent requests anchor distinct new fingerprints on one
\* ledger instance, each chain entry's block_number is its position in the
\* chain, and no two proofs of the proof map carry the same block_number.
BlockNumbersUnderInterleaving ==
    DistinctFingerprints =>
        /\ \A i \in 1..Len(chain) : chain[i].block_number = i
        /\ \A f, g \in DOMAIN in_memory_anchors :
              f # g => in_memory_anchors[f].block_number # in_memory_anchors[g].block_number

-----------------------------------------------------------------------------
(* Two worker processes, each with its own ledger instance, over one         *)
(* storage file.  The instance of the first worker is in_memory_anchors and  *)
(* chain, that of the second is worker2; each loaded the file when its       *)
(* process started and writes it whole after each block it mints.            *)

\* the ledger instance of the second worker
Worker2Ledger == Ledger(worker2.in_memory_anchors, worker2.chain, storage, storage_path)

\* both workers start over no file or over the file of an earlier process
InitWorkers ==
    /\ storage \in {NoFile, EarlierLedger(1).storage}
    /\ storage_path = TRUE
    /\ in_memory_anchors = LoadFromStorage(storage_path, storage).anchors
    /\ chain = LoadFromStorage(storage_path, storage).chain
    /\ worker2 = [in_memory_anchors |-> LoadFromStorage(storage_path, storage).anchors,
                  chain |-> LoadFromStorage(storage_path, storage).chain]
    /\ now = StartTime
    /\ ret = NoCall
    /\ first_proof = LoadFromStorage(storage_path, storage).anchors
    /\ thr = [t \in 1..NumThreads |-> Idle]
    /\ request_cvc = NoCvc
    /\ status_files = StandardFiles
    /\ verifier_key = TRUE
    /\ anchor_instance = TRUE
    /\ first_vro = NoVro
    /\ vp_token = NoVpToken

\* anchor_chain_fingerprint on the instance of the second worker
Worker2AnchorCall ==
    \E fingerprint \in Fingerprints, metadata \in Metadatas, wr \in WriteOutcomes :
      \E r \in {AnchorChainFingerprint(Worker2Ledger, fingerprint, metadata, now, wr)} :
        /\ worker2' = [in_memory_anchors |-> r.L.anchors, chain |-> r.L.chain]
        /\ storage' = r.L.storage
        /\ ret' = [fn |-> "anchor_chain_fingerprint", fingerprint |-> fingerprint,
                   arg |-> metadata, raised |-> r.raised, value |-> r.value]
        /\ first_proof' = IF r.raised \/ fingerprint \in DOMAIN first_proof
                          THEN first_proof
                          ELSE Put(first_proof, fingerprint, r.value)
        /\ UNCHANGED <<in_memory_anchors, chain, storage_path, now, thr, request_cvc,
                       status_files, verifier_key, anchor_instance, first_vro, vp_token>>

NextWorkers == AnchorCall \/ Worker2AnchorCall \/ Tick

SpecWorkers == InitWorkers /\ [][NextWorkers]_vars

\* the fingerprints the storage file holds a proof for
Persisted(file) == IF file.exists THEN DOMAIN file.anchors ELSE {}

\* C36: whatever the interleaving of the anchor calls of the two workers, a
\* write of the storage file keeps every anchor the file held: a fingerprint
\* that was persisted stays persisted.
OverwriteKeepsAnchors ==
    [][Persisted(storage) \subseteq Persisted(storage')]_vars

-----------------------------------------------------------------------------
(* Restart: a new ledger instance over the file of the one before *)

\* the process ends and a new one constructs MockBlockchainAnchor over the
\* same storage path: the map and the chain are what _load_from_storage
\* reads from the file
Restart ==
    /\ storage_path
    /\ in_memory_anchors' = LoadFromStorage(storage_path, storage).anchors
    /\ chain' = LoadFromStorage(storage_path, storage).chain
    /\ ret' = [fn |-> "__init__", fingerprint |-> EmptyString, arg |-> NoProof,
               raised |-> FALSE, value |-> Ledger(in_memory_anchors, chain, storage, storage_path)]
    /\ UNCHANGED <<storage, storage_path, now, first_proof, thr, req_vars>>

InitRestart == InitLedger /\ storage_path

NextRestart == AnchorCall \/ VerifyCall \/ GetProofCall \/ Restart \/ Tick

SpecRestart == InitRestart /\ [][NextRestart]_vars

\* C37: a ledger instance constructed over the storage file of the instance
\* before it (ret.value) has that instance's proof map and chain: verify
\* answers (True, None) for every fingerprint a caller was given a proof
\* for, anchoring one of them again returns that proof, and the next block
\* number is the old chain length plus one.
PersistenceRoundTrip ==
    ret.fn = "__init__" =>
        /\ in_memory_anchors = ret.value.anchors
        /\ chain = ret.value.chain
        /\ \A f \in DOMAIN first_proof :
              /\ VerifyAnchor(CurrentLedger, f, NoProof) = <<TRUE, None>>
              /\ VerifyAnchor(CurrentLedger, f, first_proof[f]) = <<TRUE, None>>
              /\ \A metadata \in Metadatas, wr \in WriteOutcomes :
                    AnchorChainFingerprint(CurrentLedger, f, metadata, now, wr).value
                        = first_proof[f]
        /\ NextBlockNumber(CurrentLedger) = Len(ret.value.chain) + 1

-----------------------------------------------------------------------------
(* Scope containment along the whole chain *)

\* C38: when the chain verifier has succeeded on the request's chain, every
\* element names the resource of the first element and holds no action that
\* an element before it, at any distance, does not hold; the last element
\* holds only actions of the first.
ScopeTransitive ==
    ((ret.fn = "verify_delegation_chain" /\ ret.success)
        \/ (ret.fn = "verify_cvc" /\ ChainSucceeded(ret))) =>
        /\ \A i \in 1..Len(request_cvc.Delta) :
              /\ RequestScopes[i].resource = RequestScopes[1].resource
              /\ \A j \in 1..(i - 1) :
                    RequestScopes[i].actions \subseteq RequestScopes[j].actions
        /\ Len(request_cvc.Delta) > 0 =>
              RequestScopes[Len(request_cvc.Delta)].actions \subseteq RequestScopes[1].actions

\* a chain of three has been verified whose first element holds an action
\* that the third does not
WitnessScopeTransitive ==
    /\ ret.fn = "verify_delegation_chain"
    /\ ret.success
    /\ Len(request_cvc.Delta) = 3
    /\ RequestScopes[3].actions # RequestScopes[1].actions
    /\ RequestScopes[3].actions \subseteq RequestScopes[1].actions

-----------------------------------------------------------------------------
(* Requests without a delegation chain and the ledger *)

\* requests with no chain and with a chain of one, with and without
\* require_anchor, a holder binding, a signing key and an anchor service; the
\* ledger is new or holds the block an earlier process anchored
InitEmptyChain ==
    /\ \E L \in {Ledger(EmptyMap, <<>>, NoFile, TRUE), EarlierLedger(1)} :
          /\ in_memory_anchors = L.anchors
          /\ chain = L.chain
          /\ storage = L.storage
          /\ storage_path = L.storage_path
    /\ now = StartTime
    /\ ret = NoCall
    /\ first_proof = EmptyMap
    /\ thr = [t \in 1..NumThreads |-> Idle]
    /\ request_cvc \in {BuildCvcJwt(GoodVc, tokens, P, hb) :
                           tokens \in {<<>>, <<GoodDg(Scope("acct-1", {"view"}))>>},
                           P \in {BasePolicy, [BasePolicy EXCEPT !.require_anchor = TRUE]},
                           hb \in {NoBinding, HolderProof}}
    /\ status_files = StandardFiles
    /\ verifier_key \in BOOLEAN
    /\ anchor_instance \in BOOLEAN
    /\ first_vro = NoVro
    /\ vp_token = NoVpToken
    /\ worker2 = NoWorker

SpecEmptyChain == InitEmptyChain /\ [][NextVerifier]_vars

\* the outcome of the call that returns in this step is the one the same call
\* has with no anchor service and a ledger that holds nothing
OutcomeWithoutLedger ==
    \E e \in EnvsFor(request_cvc, FALSE) :
        \/ /\ ret'.fn = "verify_cvc"
           /\ \E r \in {VerifyCvc(request_cvc, now, e, status_files, verifier_key,
                                  Ledger(EmptyMap, <<>>, NoFile, FALSE), FALSE)} :
                 /\ ret'.success = r.success
                 /\ ret'.code = r.code
                 /\ ret'.vro = r.vro
                 /\ ret'.result = r.result
        \/ /\ ret'.fn = "verify_delegation_chain"
           /\ \E r \in {VerifyDelegationChain(request_cvc.Delta, request_cvc.P, now, e, status_files,
                                              Ledger(EmptyMap, <<>>, NoFile, FALSE), FALSE)} :
                 /\ ret'.success = r.success
                 /\ ret'.code = r.code
                 /\ ret'.info = r.info
        \/ ret'.fn = "verify_vc_jwt"

\* C39: a verification of a request whose delegation chain is empty, with
\* require_anchor true or not and a ledger configured or not, leaves the proof
\* map, the chain and the storage file as they were, reports no chain
\* fingerprint and returns what it returns with no ledger at all.
EmptyChainLeavesLedger ==
    [][(Len(request_cvc.Delta) = 0 /\ ret'.fn \in VerifierCalls) =>
          /\ ~LedgerChanges
          /\ OutcomeWithoutLedger
          /\ ret'.fn = "verify_delegation_chain" =>
                ret'.success /\ ret'.info.depth = 0 /\ ret'.info.chain_fingerprint = NoFingerprint]_vars

\* verify_cvc has succeeded on a request with no chain under require_anchor,
\* with a ledger configured that holds the one block of the earlier process
WitnessEmptyChainLeavesLedger ==
    /\ ret.fn = "verify_cvc"
    /\ ret.success
    /\ Len(request_cvc.Delta) = 0
    /\ Get(request_cvc.P, "require_anchor", FALSE)
    /\ anchor_instance
    /\ chain = EarlierLedger(1).chain
    /\ in_memory_anchors = EarlierLedger(1).anchors
    /\ storage = EarlierLedger(1).storage

====
